---- MODULE Spec2Model ----
(***************************************************************************)
(* Model of wisdem/commonse/cylinder_member.py: the section registry of    *)
(* MemberComplex (a SortedDict from non-dimensional axial position to a    *)
(* CrossSection object), the operations on it, and the evaluation pipeline *)
(* of MemberComplex.compute for a circular member.                         *)
(*                                                                         *)
(* Positions s are integers: s = 1.0 is the grid position One, so one grid *)
(* step is 1/One of the member.  Section quantities are integers in units  *)
(* of 1e-2, so the ghost value 1e-2 is 1.  Python objects live in `heap`   *)
(* (a sequence of CrossSection records); the registry stores references    *)
(* into it, NoneRef for None, so two keys holding one object are visible.  *)
(***************************************************************************)
EXTENDS Integers, Sequences, FiniteSets, TLC

VARIABLES
    sections,   \* self.sections: key -> reference into heap (NoneRef = None)
    heap,       \* the CrossSection objects created so far
    call,       \* the registry call or overlay step made last: its arguments, the registry before it, whether it raised
    pc,         \* position of MemberComplex.compute: the method to run next, "done" or "error"
    opt,        \* the component's options (array sizes fixed by setup)
    inputs,     \* the component's input arrays, as compute reads (and writes) them
    supplied,   \* the input values the caller supplied
    outputs,    \* the component's output arrays; they persist between evaluations
    prev,       \* the outputs as they stood when the running evaluation started, and how it was started
    evals       \* number of evaluations started

pvars == <<pc, opt, inputs, supplied, outputs, prev, evals>>

vars == <<sections, heap, call, pc, opt, inputs, supplied, outputs, prev, evals>>

-----------------------------------------------------------------------------
(* Bounds *)

\* registry-level specification: keys range over -1 .. RegN + 1
RegN == 4
\* registry-level specification: number of add_node / insert_section calls
MaxOps == 2

-----------------------------------------------------------------------------
(* CrossSection objects *)

NoneRef == 0

\* CrossSection.make_ghost sets these fields to 1e-2
GhostVal == 1
\* CrossSection.make_ghost multiplies E, G, sigy by 1e2
GhostStiff == 100

\* CircCrossSection(...): one record per object; nghost counts make_ghost calls
CrossSection(D, t, A, Asx, Asy, Ixx, Iyy, J0, E, G, rho, TorsC, sigy) ==
    [D |-> D, t |-> t, A |-> A, Asx |-> Asx, Asy |-> Asy, Ixx |-> Ixx, Iyy |-> Iyy,
     J0 |-> J0, E |-> E, G |-> G, rho |-> rho, TorsC |-> TorsC, sigy |-> sigy,
     nghost |-> 0]

\* CircCrossSection.make_ghost
make_ghost(o) ==
    [o EXCEPT !.t = GhostVal,
              !.A = GhostVal, !.Asx = GhostVal, !.Asy = GhostVal,
              !.Ixx = GhostVal, !.Iyy = GhostVal, !.J0 = GhostVal,
              !.rho = GhostVal,
              !.E = GhostStiff * o.E, !.G = GhostStiff * o.G, !.sigy = GhostStiff * o.sigy,
              !.D = GhostVal,
              !.nghost = o.nghost + 1]

\* a new object on the heap: [heap, ref]
Alloc(hp, o) == [heap |-> Append(hp, o), ref |-> Len(hp) + 1]

\* copy.copy(x): a new object with the same fields; copy.copy(None) is None
Copy(hp, ref) ==
    IF ref = NoneRef THEN [heap |-> hp, ref |-> NoneRef] ELSE Alloc(hp, hp[ref])

-----------------------------------------------------------------------------
(* SortedDict *)

\* SortedDict.bisect_left(x): the number of keys below x
bisect_left(sec, x) == Cardinality({k \in DOMAIN sec : k < x})

\* SortedDict.keys()[i], 0-based; a negative i counts from the end as Python does
KeyAt(sec, i) ==
    LET n == Cardinality(DOMAIN sec)
        j == IF i < 0 THEN n + i ELSE i
    IN  CHOOSE k \in DOMAIN sec : Cardinality({x \in DOMAIN sec : x < k}) = j

\* self.sections[k] = v
SetItem(sec, k, v) == [x \in (DOMAIN sec) \cup {k} |-> IF x = k THEN v ELSE sec[x]]

\* SortedDict()
EmptyDict == [x \in {} |-> NoneRef]

FirstKey(sec) == KeyAt(sec, 0)
LastKey(sec) == KeyAt(sec, -1)

\* the key of the interval that covers position s: the greatest key <= s
CoverKey(sec, s) == KeyAt(sec, Cardinality({k \in DOMAIN sec : k <= s}) - 1)

-----------------------------------------------------------------------------
(* Registry operations.  R is [sec, heap, err]: the registry, the heap and *)
(* whether an exception has been raised (a raised call changes nothing     *)
(* further).                                                               *)

Reg(sec, hp) == [sec |-> sec, heap |-> hp, err |-> FALSE]

\* add_node without the "Cannot insert node before start of list" check:
\* keys_orig[-1] is then the last key
AddNodeNoRaise(R, s_new) ==
    IF R.err \/ s_new \in DOMAIN R.sec THEN R
    ELSE IF DOMAIN R.sec = {} THEN [R EXCEPT !.err = TRUE]
    ELSE LET idx == bisect_left(R.sec, s_new) - 1
             c == Copy(R.heap, R.sec[KeyAt(R.sec, idx)])
         IN  [sec |-> SetItem(R.sec, s_new, c.ref), heap |-> c.heap, err |-> FALSE]

\* add_node without the "Quit if node already exists" early return
AddNodeNoQuit(R, s_new) ==
    IF R.err THEN R
    ELSE LET idx == bisect_left(R.sec, s_new) - 1
         IN  IF idx < 0 THEN [R EXCEPT !.err = TRUE]
             ELSE LET c == Copy(R.heap, R.sec[KeyAt(R.sec, idx)])
                  IN  [sec |-> SetItem(R.sec, s_new, c.ref), heap |-> c.heap, err |-> FALSE]

\* add_node that stores the interrupted section itself instead of a copy
AddNodeNoCopy(R, s_new) ==
    IF R.err \/ s_new \in DOMAIN R.sec THEN R
    ELSE LET idx == bisect_left(R.sec, s_new) - 1
         IN  IF idx < 0 THEN [R EXCEPT !.err = TRUE]
             ELSE [R EXCEPT !.sec = SetItem(R.sec, s_new, R.sec[KeyAt(R.sec, idx)])]

\* MemberComplex.add_node
add_node(R, s_new) ==
    IF R.err THEN R
    ELSE IF s_new \in DOMAIN R.sec THEN R
    ELSE LET idx == bisect_left(R.sec, s_new) - 1
         IN  IF idx < 0 THEN [R EXCEPT !.err = TRUE]
             ELSE LET c == Copy(R.heap, R.sec[KeyAt(R.sec, idx)])
                  IN  [sec |-> SetItem(R.sec, s_new, c.ref), heap |-> c.heap, err |-> FALSE]

\* insert_section that calls add_node(s1) after writing the new section
InsertSectionNodeLast(R, s0, s1, ref) ==
    IF R.err THEN R
    ELSE LET idx0 == bisect_left(R.sec, s0)
             idx1 == bisect_left(R.sec, s1)
             sec1 == IF idx0 # idx1 THEN SetItem(R.sec, KeyAt(R.sec, idx0), ref) ELSE R.sec
         IN  add_node([R EXCEPT !.sec = SetItem(sec1, s0, ref)], s1)

\* MemberComplex.insert_section; keys_orig is a live view of the keys, read
\* after add_node(s1)
insert_section(R, s0, s1, ref) ==
    IF R.err THEN R
    ELSE LET idx0 == bisect_left(R.sec, s0)
             idx1 == bisect_left(R.sec, s1)
             R1 == add_node(R, s1)
         IN  IF R1.err THEN R1
             ELSE LET sec2 == IF idx0 # idx1
                              THEN SetItem(R1.sec, KeyAt(R1.sec, idx0), ref)
                              ELSE R1.sec
                  IN  [R1 EXCEPT !.sec = SetItem(sec2, s0, ref)]

\* MemberComplex.add_section
add_section(R, s0, s1, ref) ==
    IF R.err THEN R
    ELSE [R EXCEPT !.sec = SetItem(SetItem(R.sec, s0, ref), s1, NoneRef)]

-----------------------------------------------------------------------------
(* Registry-level specification: a main partition built with add_section,  *)
(* then add_node and insert_section calls with arbitrary arguments.        *)

\* the section object passed to add_section / insert_section by call number n
ArgSection(n) ==
    CrossSection(10 + n, 10 + n, 10 + n, 10 + n, 10 + n, 10 + n, 10 + n, 10 + n,
                 10 + n, 10 + n, 10 + n, 10 + n, 10 + n)

RegPositions == -1 .. RegN + 1

NoCall == [op |-> "init", s0 |-> 0, s1 |-> 0, ref |-> NoneRef,
           pre |-> Reg(EmptyDict, <<>>), raised |-> FALSE, n |-> 0]

RegInit ==
    /\ sections = EmptyDict
    /\ heap = <<>>
    /\ call = NoCall
    /\ pc = "registry"
    /\ opt = <<>>
    /\ inputs = <<>>
    /\ supplied = <<>>
    /\ outputs = <<>>
    /\ prev = <<>>
    /\ evals = 0

\* the result R of a call becomes the state; a raised call leaves the state as it was
Return(R, op, s0, s1, ref, counted) ==
    /\ sections' = R.sec
    /\ heap' = R.heap
    /\ call' = [op |-> op, s0 |-> s0, s1 |-> s1, ref |-> ref,
                pre |-> Reg(sections, heap), raised |-> R.err,
                n |-> call.n + counted]
    /\ UNCHANGED pvars

\* add_main_sections' loop: add_section(s_full[k], s_full[k+1], iprop)
RegAddSection ==
    /\ DOMAIN sections = {} \/ call.op = "add_section"
    /\ \E s1 \in 1 .. RegN :
        LET s0 == IF DOMAIN sections = {} THEN 0 ELSE LastKey(sections)
            a == Alloc(heap, ArgSection(s0))
        IN  /\ s0 < s1
            /\ Return(add_section(Reg(sections, a.heap), s0, s1, a.ref),
                      "add_section", s0, s1, a.ref, 0)

RegAddNode ==
    /\ call.n < MaxOps
    /\ \E s \in RegPositions :
        Return(add_node(Reg(sections, heap), s), "add_node", s, s, NoneRef, 1)

RegInsertSection ==
    /\ call.n < MaxOps
    /\ \E s0 \in RegPositions, s1 \in RegPositions :
        LET a == Alloc(heap, ArgSection(20 + call.n))
        IN  /\ s0 <= s1
            /\ Return(insert_section(Reg(sections, a.heap), s0, s1, a.ref),
                      "insert_section", s0, s1, a.ref, 1)

RegNext == RegAddSection \/ RegAddNode \/ RegInsertSection

SpecReg == RegInit /\ [][RegNext]_vars

-----------------------------------------------------------------------------
(* Claims about the registry operations (specification SpecReg)            *)

NoneVal == [none |-> TRUE]

\* the fields of the section stored at key k, NoneVal for None
SecAt(sec, hp, k) == IF sec[k] = NoneRef THEN NoneVal ELSE hp[sec[k]]

InsertReturned == call.op = "insert_section" /\ ~call.raised

\* keys of the registry before the call that lie in [s0, s1)
KeysInside == {k \in DOMAIN call.pre.sec : call.s0 <= k /\ k < call.s1}

InsertInRange ==
    /\ InsertReturned
    /\ DOMAIN call.pre.sec # {}
    /\ FirstKey(call.pre.sec) <= call.s0
    /\ call.s0 < call.s1
    /\ call.s1 <= LastKey(call.pre.sec)

\* C1: after insert_section(s0, s1, section) with first key <= s0 < s1 <= last
\* key, every registry key k with s0 <= k < s1 holds section, however many
\* keys lay inside [s0, s1) before the call.
C1_InsertCoversInterval ==
    InsertInRange =>
        \A k \in DOMAIN sections :
            (call.s0 <= k /\ k < call.s1) => sections[k] = call.ref

\* what insert_section does establish: the key s0 and the first key at or
\* after s0 hold section
C1_FirstStraddledKey ==
    InsertInRange =>
        /\ sections[call.s0] = call.ref
        /\ KeysInside # {} =>
              sections[CHOOSE k \in KeysInside : \A j \in KeysInside : k <= j] = call.ref

\* the right-hand side of C2 for the call made last
RightNeighbourKept ==
    /\ call.s1 \in DOMAIN sections
    /\ \E k \in DOMAIN call.pre.sec : k <= call.s1
    /\ SecAt(sections, heap, call.s1)
         = SecAt(call.pre.sec, call.pre.heap, CoverKey(call.pre.sec, call.s1))
    /\ \A k \in DOMAIN sections :
          (k > call.s1 \/ k < call.s0) =>
              /\ k \in DOMAIN call.pre.sec
              /\ sections[k] = call.pre.sec[k]
              /\ SecAt(sections, heap, k) = SecAt(call.pre.sec, call.pre.heap, k)

\* C2 as stated: after insert_section(s0, s1, section) the key s1 exists and
\* holds the section that covered s1 before the call, and every key above s1
\* and every key below s0 holds the same section as before the call.
C2_RightNeighbourKept_AnyExtent == InsertReturned => RightNeighbourKept

\* C2 amended: the same for an extent with s0 < s1.
C2_RightNeighbourKept == (InsertReturned /\ call.s0 < call.s1) => RightNeighbourKept

\* an insertion that straddles an old key, creates the key s1 and has keys on
\* both sides
C2_Witness ==
    /\ InsertReturned
    /\ call.s0 < call.s1
    /\ call.s1 \notin DOMAIN call.pre.sec
    /\ \E k \in DOMAIN call.pre.sec : call.s0 < k /\ k < call.s1
    /\ \E k \in DOMAIN call.pre.sec : k < call.s0
    /\ \E k \in DOMAIN call.pre.sec : k > call.s1 /\ call.pre.sec[k] # NoneRef

\* C4: add_node is idempotent: a second add_node(s) right after a first one
\* that returned leaves the keys and the section at every key as they are.
C4_AddNodeIdempotent ==
    (call.op = "add_node" /\ ~call.raised) =>
        add_node(Reg(sections, heap), call.s0) = Reg(sections, heap)

\* a first add_node(s) that did insert a node holding a section
C4_Witness ==
    /\ call.op = "add_node"
    /\ ~call.raised
    /\ call.s0 \notin DOMAIN call.pre.sec
    /\ sections[call.s0] # NoneRef
    /\ \E k \in DOMAIN sections : k < call.s0 /\ \E j \in DOMAIN sections : k < j /\ j < call.s0

\* C5: add_node(s) with s before the first key, or on an empty registry,
\* raises and leaves keys and sections unchanged.
C5_AddNodeBeforeStartRaises ==
    (/\ call.op = "add_node"
     /\ \/ DOMAIN call.pre.sec = {}
        \/ call.s0 < FirstKey(call.pre.sec))
    => /\ call.raised
       /\ sections = call.pre.sec
       /\ heap = call.pre.heap

\* add_node(s) below the first key of a registry that holds sections
C5_Witness ==
    /\ call.op = "add_node"
    /\ call.raised
    /\ Cardinality(DOMAIN call.pre.sec) >= 2
    /\ call.s0 < FirstKey(call.pre.sec)

-----------------------------------------------------------------------------
(* MemberComplex.compute for a circular member.                            *)
(*                                                                         *)
(* Lengths are in grid steps: the member height L is One, so z = s and a   *)
(* thickness t covers t grid steps of s.  The member has one outer         *)
(* diameter; masses are in units of pi * (unit density).                   *)

\* bounds of the pipeline specification
One == 6            \* the grid position of s = 1.0
MaxBulk == 2        \* n_bulkheads is 0 .. MaxBulk
MaxEvals == 2       \* evaluations of one component
MEMMAX == 7         \* capacity of the nodal output arrays (200 in the source)

Mid == One \div 2

\* options["n_bulkheads"], ["n_ballasts"], ["n_axial_joints"], ["n_height"]
Options ==
    [n_bulk : 0 .. MaxBulk, n_ball : {0, 1}, n_axial : {0, 1}, n_height : {2, 3}]

\* ascending sequence of the keys of the registry: list(self.sections.keys())
SortedKeys(sec) == [i \in 1 .. Cardinality(DOMAIN sec) |-> KeyAt(sec, i - 1)]

RECURSIVE SumSeq(_)
SumSeq(q) == IF q = <<>> THEN 0 ELSE Head(q) + SumSeq(Tail(q))

Min(a, b) == IF a < b THEN a ELSE b
Max(a, b) == IF a > b THEN a ELSE b

\* what numpy leaves in an array entry after a division by zero (inf, nan)
NonFinite == 987654321

\* numpy true division on arrays: a zero divisor yields inf or nan and a
\* RuntimeWarning, never an exception
FDiv(a, b) == IF b = 0 THEN NonFinite ELSE a \div b

\* np.interp(x, xp, fp) for increasing xp
interp(x, xp, fp) ==
    IF x <= xp[1] THEN fp[1]
    ELSE IF x >= xp[Len(xp)] THEN fp[Len(fp)]
    ELSE LET j == CHOOSE k \in 1 .. Len(xp) - 1 : xp[k] <= x /\ x < xp[k + 1]
         IN  fp[j] + ((x - xp[j]) * (fp[j + 1] - fp[j])) \div (xp[j + 1] - xp[j])

\* frustum.frustumVol(rb, rt, h), over pi
frustumVol(rb, rt, h) == ((rb * rb + rb * rt + rt * rt) * h) \div 3

\* util.sectionalInterp(x, s_full, y): the value of the interval that holds
\* x, right-continuous at the nodes, clamped at both ends
sectionalInterp(x, s_full, y) ==
    LET below == {k \in 1 .. Len(s_full) - 1 : s_full[k] <= x}
    IN  IF below = {} THEN y[1]
        ELSE y[CHOOSE k \in below : \A j \in below : j <= k]

\* cs.Tube(D, t): properties of an annulus of outer diameter D and wall t,
\* D = 2 Ro: area / pi, inertias / (pi/4)
Tube(D, t) ==
    LET Ro == D \div 2
        Ri == Ro - t
        I == Ro * Ro * Ro * Ro - Ri * Ri * Ri * Ri
    IN  [Area |-> Ro * Ro - Ri * Ri, Ixx |-> I, Iyy |-> I, J0 |-> 2 * I,
         Asx |-> (Ro * Ro - Ri * Ri) \div 2 + 1, Asy |-> (Ro * Ro - Ri * Ri) \div 2 + 1,
         TorsConst |-> (2 * I) \div Ro]

\* the outer diameter of the member, the same at every node
Diameter == 8
\* the wall thickness of the member, the same in every interval
WallT == 1

\* the ballast density: the ballast mass is then a multiple of every
\* area * height it is divided by
BallastDensity == 11760

\* the inputs of one evaluation; the material arrays differ from one interval
\* to the next
InputChoices(o) ==
    [s_full : IF o.n_height = 2 THEN {<<0, One>>} ELSE {<<0, Mid, One>>},
     outer_diameter : {Diameter},
     t_full : {[k \in 1 .. o.n_height - 1 |-> WallT]},
     rho_full : {[k \in 1 .. o.n_height - 1 |-> 70 + 10 * k]},
     E_full : {[k \in 1 .. o.n_height - 1 |-> 200 + k]},
     G_full : {[k \in 1 .. o.n_height - 1 |-> 80 + k]},
     sigma_y_full : {[k \in 1 .. o.n_height - 1 |-> 30 + k]},
     unit_cost_full : {[k \in 1 .. o.n_height - 1 |-> 2]},
     s_ghost1 : {0, 1, Mid + 1},
     s_ghost2 : {One - 1, One},
     bulkhead_grid : [1 .. o.n_bulk -> {0, Mid, One}],
     bulkhead_thickness : [1 .. o.n_bulk -> {0, 2}],
     ring_stiffener_spacing : {0, 2 * Mid},
     ring_stiffener_flange_width : {2},
     ring_stiffener_web_thickness : {2},
     ring_stiffener_web_height : {1},
     ring_stiffener_flange_thickness : {1},
     ballast_grid : [1 .. o.n_ball -> {<<0, One>>, <<Mid - 1, Mid + 1>>, <<0, Mid>>}],
     ballast_density : [1 .. o.n_ball -> {BallastDensity}],
     ballast_volume : [1 .. o.n_ball -> {60}],
     grid_axial_joints : [1 .. o.n_axial -> {1, Mid + 1}],
     total_mass_user : {0}]

\* the sentinel that pads the nodal output arrays
NULL == -9999

\* np.zeros(MEMMAX): padding with zeros instead of the sentinel
ZeroArray == [k \in 1 .. MEMMAX |-> 0]

\* NULL * np.ones(MEMMAX)
NullArray == [k \in 1 .. MEMMAX |-> NULL]

\* index k of the section_* arrays when every one of them holds the sentinel
NullSection ==
    [D |-> NULL, t |-> NULL, A |-> NULL, Asx |-> NULL, Asy |-> NULL, rho |-> NULL,
     Ixx |-> NULL, Iyy |-> NULL, J0 |-> NULL, E |-> NULL, G |-> NULL,
     TorsC |-> NULL, sigma_y |-> NULL]

\* setup(): the declared values of the outputs; section[k] gathers index k
\* of the section_* arrays
DefaultOutputs(o) ==
    [shell_mass |-> 0, bulkhead_mass |-> 0, stiffener_mass |-> 0, stiffener_cost |-> 0,
     ballast_mass |-> 0, total_mass |-> 0, structural_mass |-> 0,
     ballast_height |-> [k \in 1 .. o.n_ball |-> 0], ballast_z_cg |-> 0,
     constr_ballast_capacity |-> [k \in 1 .. o.n_ball |-> 0],
     s_all |-> NullArray, section |-> [k \in 1 .. MEMMAX |-> NullSection]]

NotStarted(o) == [outputs |-> DefaultOutputs(o), same |-> FALSE, after |-> "idle"]

Init ==
    /\ sections = EmptyDict
    /\ heap = <<>>
    /\ call = NoCall
    /\ pc = "idle"
    /\ opt \in Options
    /\ inputs = <<>>
    /\ supplied = <<>>
    /\ outputs = DefaultOutputs(opt)
    /\ prev = NotStarted(opt)
    /\ evals = 0

\* compute(): self.sections = SortedDict(), then the first method
StartCompute(same) ==
    /\ sections' = EmptyDict
    /\ heap' = <<>>
    /\ call' = NoCall
    /\ pc' = "add_main_sections"
    /\ prev' = [outputs |-> outputs, same |-> same, after |-> pc]
    /\ evals' = evals + 1
    /\ UNCHANGED <<opt, outputs>>

\* the caller supplies all inputs and evaluates the component
SetInputs ==
    /\ pc = "idle"
    /\ \E i \in InputChoices(opt) :
        /\ inputs' = i
        /\ supplied' = i
    /\ StartCompute(FALSE)

\* the caller evaluates the component again without supplying anything
Reevaluate ==
    /\ pc \in {"done", "error"}
    /\ evals < MaxEvals
    /\ UNCHANGED <<inputs, supplied>>
    /\ StartCompute(TRUE)

\* the caller changes ring_stiffener_spacing alone and evaluates again
SetRingStiffenerSpacing ==
    /\ pc \in {"done", "error"}
    /\ evals < MaxEvals
    /\ \E v \in {0, 2 * Mid} :
        /\ v # supplied.ring_stiffener_spacing
        /\ inputs' = [inputs EXCEPT !.ring_stiffener_spacing = v]
        /\ supplied' = [supplied EXCEPT !.ring_stiffener_spacing = v]
    /\ StartCompute(FALSE)

\* one overlay method has run: R is the registry it leaves, out the outputs
Step(R, out, op, next) ==
    /\ sections' = R.sec
    /\ heap' = R.heap
    /\ call' = [op |-> op, s0 |-> 0, s1 |-> 0, ref |-> NoneRef,
                pre |-> Reg(sections, heap), raised |-> R.err, n |-> 0]
    /\ outputs' = out
    /\ pc' = IF R.err THEN "error" ELSE next
    /\ UNCHANGED <<opt, supplied, prev, evals>>

\* the shell section of interval k of s_full (no axial stiffeners): a tube,
\* or for a rectangular member the hollow rectangle cs.Rectangle(a, b, t),
\* here a square of side a = b kept in the field D (area as such, inertias
\* times 12)
ShellSection(i, k) ==
    LET itube == Tube(i.outer_diameter, i.t_full[k])
        a == i.side_length_a
        ai == i.side_length_a - 2 * i.t_full[k]
        I == a * a * a * a - ai * ai * ai * ai
    IN  IF "shape" \in DOMAIN i /\ i.shape = "rectangular"
        THEN CrossSection(a, i.t_full[k], a * a - ai * ai, (a * a - ai * ai) \div 2,
                          (a * a - ai * ai) \div 2, I, I, 2 * I, i.E_full[k], i.G_full[k],
                          i.rho_full[k], (2 * I) \div a, i.sigma_y_full[k])
        ELSE CrossSection(i.outer_diameter, i.t_full[k], itube.Area, itube.Asx, itube.Asy,
                          itube.Ixx, itube.Iyy, itube.J0, i.E_full[k], i.G_full[k],
                          i.rho_full[k], itube.TorsConst, i.sigma_y_full[k])

\* for k in range(len(s_full) - 1): self.add_section(s_full[k], s_full[k + 1], iprop)
RECURSIVE MainLoop(_, _, _)
MainLoop(R, i, k) ==
    IF k > Len(i.s_full) - 1 THEN R
    ELSE LET a == Alloc(R.heap, ShellSection(i, k))
         IN  MainLoop(add_section([R EXCEPT !.heap = a.heap], i.s_full[k], i.s_full[k + 1], a.ref),
                      i, k + 1)

\* self.sections[s].make_ghost() for each key of ks in turn; None has no
\* make_ghost and raises
RECURSIVE GhostAll(_, _)
GhostAll(R, ks) ==
    IF R.err \/ ks = <<>> THEN R
    ELSE LET r == R.sec[Head(ks)]
         IN  IF r = NoneRef THEN [R EXCEPT !.err = TRUE]
             ELSE GhostAll([R EXCEPT !.heap[r] = make_ghost(R.heap[r])], Tail(ks))

\* ascending sequence of the members of a set of positions: the order of
\* iteration over a SortedDict, and of np.unique
SortedSeq(S) ==
    [j \in 1 .. Cardinality(S) |-> CHOOSE k \in S : Cardinality({x \in S : x < k}) = j - 1]

\* "Adjust for ghost sections": the loop left of s_ghost1
GhostLeft(R, g1) ==
    IF g1 > 0
    THEN LET R1 == add_node(R, g1)
         IN  IF R1.err THEN R1
             ELSE GhostAll(R1, SortedSeq({k \in DOMAIN R1.sec : k < g1}))
    ELSE R

\* the ghost loop right of s_ghost2 that skips no key
GhostRightAll(R, g2) ==
    IF g2 < One
    THEN LET R1 == add_node(R, g2)
         IN  IF R1.err THEN R1
             ELSE GhostAll(R1, SortedSeq({k \in DOMAIN R1.sec : k # One}))
    ELSE R

\* "Adjust for ghost sections": the loop right of s_ghost2
GhostRight(R, g2) ==
    IF g2 < One
    THEN LET R1 == add_node(R, g2)
         IN  IF R1.err THEN R1
             ELSE GhostAll(R1, SortedSeq({k \in DOMAIN R1.sec : ~(k < g2 \/ k = One)}))
    ELSE R

\* frustum.frustumShellVol, over pi: the frustum of the outer radii less the
\* frustum of the inner radii; (Ro^2 - Ri^2) H for equal end radii
frustumShellVol(Rb, Rt, t, H) == frustumVol(Rb, Rt, H) - frustumVol(Rb - t, Rt - t, H)

\* shell_mass: per interval of the registry keys. The circular branch sets
\* the density to zero in the ghost regions (mass over pi); the rectangular
\* branch takes the density as interpolated, with
\* frustum.RectangularFrustumShellVol for sides that do not change along
\* the member
ShellMass(sec, i) ==
    LET ks == SortedKeys(sec)
        m(j) == LET mid2 == ks[j] + ks[j + 1]     \* twice s_section
                    rho == IF mid2 < 2 * i.s_ghost1 \/ mid2 > 2 * i.s_ghost2 THEN 0
                           ELSE sectionalInterp(ks[j], i.s_full, i.rho_full)
                    t == sectionalInterp(ks[j], i.s_full, i.t_full)
                    R == i.outer_diameter \div 2
                IN  rho * frustumShellVol(R, R, t, ks[j + 1] - ks[j])
        mrect(j) == LET t == sectionalInterp(ks[j], i.s_full, i.t_full)
                        V == (i.side_length_a * i.side_length_b
                                - (i.side_length_a - 2 * t) * (i.side_length_b - 2 * t))
                               * (ks[j + 1] - ks[j])
                    IN  sectionalInterp(ks[j], i.s_full, i.rho_full) * V
    IN  IF "shape" \in DOMAIN i /\ i.shape = "rectangular"
        THEN SumSeq([j \in 1 .. Len(ks) - 1 |-> mrect(j)])
        ELSE SumSeq([j \in 1 .. Len(ks) - 1 |-> m(j)])

\* MemberComplex.add_main_sections
add_main_sections(R, i, out) ==
    LET R1 == MainLoop(R, i, 1)
        R2 == GhostLeft(R1, i.s_ghost1)
        R3 == GhostRight(R2, i.s_ghost2)
    IN  [R |-> R3,
         out |-> IF R3.err THEN out ELSE [out EXCEPT !.shell_mass = ShellMass(R3.sec, i)]]

AddMainSections ==
    /\ pc = "add_main_sections"
    /\ LET r == add_main_sections(Reg(sections, heap), inputs, outputs)
       IN  Step(r.R, r.out, "add_main_sections", "add_bulkhead_sections")
    /\ UNCHANGED inputs

\* numpy broadcasting of an array of size u against one of size n: the index
\* into the first for index k of the result
Bcast(u, k) == IF u = 1 THEN 1 ELSE k

\* the bulkhead extents s0, s1 after the two boundary adjustments; sb is the
\* unique clamped position array, tb the thickness input
BulkheadExtents(sb, tb, g1, g2) ==
    LET n == Max(Len(sb), Len(tb))
        a0 == [k \in 1 .. n |-> sb[Bcast(Len(sb), k)] - tb[Bcast(Len(tb), k)] \div 2]
        a1 == [k \in 1 .. n |-> sb[Bcast(Len(sb), k)] + tb[Bcast(Len(tb), k)] \div 2]
        lo == a0[1] < g1
        b0 == IF lo THEN [a0 EXCEPT ![1] = g1] ELSE a0
        b1 == IF lo THEN [a1 EXCEPT ![1] = g1 + tb[1]] ELSE a1
        hi == b1[n] > g2
        c0 == IF hi THEN [b0 EXCEPT ![n] = g2 - tb[Len(tb)]] ELSE b0
        c1 == IF hi THEN [b1 EXCEPT ![n] = g2] ELSE b1
    IN  [s0 |-> c0, s1 |-> c1]

\* the solid-disk section of the bulkhead at position s
BulkheadSection(i, s) ==
    LET R_od == i.outer_diameter \div 2
        itube == Tube(2 * R_od, R_od)
    IN  CrossSection(2 * R_od, R_od, itube.Area, itube.Asx, itube.Asy,
                     itube.Ixx, itube.Iyy, itube.J0,
                     sectionalInterp(s, i.s_full, i.E_full),
                     sectionalInterp(s, i.s_full, i.G_full),
                     sectionalInterp(s, i.s_full, i.rho_full),
                     0,
                     sectionalInterp(s, i.s_full, i.sigma_y_full))

\* for k in range(nbulk): ... self.insert_section(s0[k], s1[k], iprop);
\* R_od_bulk[k] raises IndexError once k passes the unique positions
RECURSIVE BulkheadLoop(_, _, _, _, _, _)
BulkheadLoop(R, i, sb, ext, nbulk, k) ==
    IF R.err \/ k > nbulk THEN R
    ELSE IF k > Len(sb) THEN [R EXCEPT !.err = TRUE]
    ELSE LET a == Alloc(R.heap, BulkheadSection(i, sb[k]))
         IN  BulkheadLoop(insert_section([R EXCEPT !.heap = a.heap], ext.s0[k], ext.s1[k], a.ref),
                          i, sb, ext, nbulk, k + 1)

\* m_bulk.sum(): coeff * rho * A_bulk * t_bulk, A_bulk = R_id^2 (over pi)
BulkheadMass(i, sb, tb) ==
    LET n == Max(Len(sb), Len(tb))
        m(k) == LET s == sb[Bcast(Len(sb), k)]
                    R_id == i.outer_diameter \div 2 - sectionalInterp(s, i.s_full, i.t_full)
                IN  sectionalInterp(s, i.s_full, i.rho_full) * R_id * R_id * tb[Bcast(Len(tb), k)]
    IN  SumSeq([k \in 1 .. n |-> m(k)])

\* MemberComplex.add_bulkhead_sections
add_bulkhead_sections(R, i, out) ==
    LET nbulk == Len(i.bulkhead_grid)
        tb == i.bulkhead_thickness
        sb == SortedSeq({Min(Max(i.bulkhead_grid[k], i.s_ghost1), i.s_ghost2) : k \in 1 .. nbulk})
    IN  IF nbulk = 0 THEN [R |-> R, out |-> out]
        ELSE IF Len(sb) # nbulk /\ Len(sb) # 1
        THEN [R |-> [R EXCEPT !.err = TRUE], out |-> out]   \* shapes cannot be broadcast
        ELSE LET R1 == BulkheadLoop(R, i, sb, BulkheadExtents(sb, tb, i.s_ghost1, i.s_ghost2), nbulk, 1)
             IN  [R |-> R1,
                  out |-> IF R1.err THEN out
                          ELSE [out EXCEPT !.bulkhead_mass = BulkheadMass(i, sb, tb)]]

AddBulkheadSections ==
    /\ pc = "add_bulkhead_sections"
    /\ LET r == add_bulkhead_sections(Reg(sections, heap), inputs, outputs)
       IN  Step(r.R, r.out, "add_bulkhead_sections", "add_ring_stiffener_sections")
    /\ UNCHANGED inputs

Abs(x) == IF x < 0 THEN -x ELSE x

\* np.sqrt, rounded down
Isqrt(n) == CHOOSE r \in 0 .. n : r * r <= n /\ n < (r + 1) * (r + 1)

\* while np.any(np.abs(s_bulk - s) <= tol) and s > tol: s -= tol
RECURSIVE Nudge(_, _, _)
Nudge(s, s_bulk, tol) ==
    IF (\E k \in 1 .. Len(s_bulk) : Abs(s_bulk[k] - s) <= tol) /\ s > tol
    THEN Nudge(s - tol, s_bulk, tol)
    ELSE s

\* s_stiff: the candidate positions inside (s_ghost1, s_ghost2), each nudged
\* away from the bulkhead positions
StiffenerPositions(i) ==
    LET P == i.ring_stiffener_spacing
        n == One \div P
        cand == [k \in 1 .. n |-> ((2 * k - 1) * P) \div 2]
        kept == SelectSeq(cand, LAMBDA x : x > i.s_ghost1 /\ x < i.s_ghost2)
        tol == i.ring_stiffener_flange_width
    IN  [k \in 1 .. Len(kept) |-> Nudge(kept[k], i.bulkhead_grid, tol)]

\* the stiffener extents s0, s1, clipped at 0 and 1 (s_stiff is not empty)
StiffenerExtents(ss, w) ==
    LET n == Len(ss)
        a0 == [k \in 1 .. n |-> ss[k] - w \div 2]
        a1 == [k \in 1 .. n |-> ss[k] + w \div 2]
        lo == a0[1] < 0
        b0 == IF lo THEN [a0 EXCEPT ![1] = 0] ELSE a0
        b1 == IF lo THEN [a1 EXCEPT ![1] = w] ELSE a1
        hi == b1[n] > One
        c0 == IF hi THEN [b0 EXCEPT ![n] = One - w] ELSE b0
        c1 == IF hi THEN [b1 EXCEPT ![n] = One] ELSE b1
    IN  [s0 |-> c0, s1 |-> c1]

\* the combined shell + web + flange section of the stiffener at position s;
\* web_frac = t_web / w_flange is inf for a flange of no width, and so is
\* every property the web enters
StiffenerSection(i, s) ==
    LET R_od == i.outer_diameter \div 2
        R_wo == R_od - sectionalInterp(s, i.s_full, i.t_full)
        R_fo == R_wo - i.ring_stiffener_web_height
        web_frac == FDiv(i.ring_stiffener_web_thickness, i.ring_stiffener_flange_width)
        ishell == Tube(2 * R_od, sectionalInterp(s, i.s_full, i.t_full))
        iweb == Tube(2 * R_wo, i.ring_stiffener_web_height)
        iflange == Tube(2 * R_fo, i.ring_stiffener_flange_thickness)
        Mix(a, b, c) == IF web_frac = NonFinite THEN NonFinite ELSE a + b + c * web_frac
        Ak == Mix(ishell.Area, iflange.Area, iweb.Area)
    IN  CrossSection(2 * R_od,
                     IF Ak = NonFinite THEN NonFinite ELSE R_od - Isqrt(R_od * R_od - Ak),
                     Ak,
                     Mix(ishell.Asx, iflange.Asx, iweb.Asx),
                     Mix(ishell.Asy, iflange.Asy, iweb.Asy),
                     Mix(ishell.Ixx, iflange.Ixx, iweb.Ixx),
                     Mix(ishell.Iyy, iflange.Iyy, iweb.Iyy),
                     Mix(ishell.J0, iflange.J0, iweb.J0),
                     sectionalInterp(s, i.s_full, i.E_full),
                     sectionalInterp(s, i.s_full, i.G_full),
                     sectionalInterp(s, i.s_full, i.rho_full),
                     0,
                     sectionalInterp(s, i.s_full, i.sigma_y_full))

\* for k in range(n_stiff): ... self.insert_section(s0[k], s1[k], iprop)
RECURSIVE StiffenerLoop(_, _, _, _, _)
StiffenerLoop(R, i, ss, ext, k) ==
    IF R.err \/ k > Len(ss) THEN R
    ELSE LET a == Alloc(R.heap, StiffenerSection(i, ss[k]))
         IN  StiffenerLoop(insert_section([R EXCEPT !.heap = a.heap], ext.s0[k], ext.s1[k], a.ref),
                           i, ss, ext, k + 1)

\* m_ring: rho * (V_web + V_flange) of the stiffener at position s (over pi)
RingMass(i, s) ==
    LET R_wo == i.outer_diameter \div 2 - sectionalInterp(s, i.s_full, i.t_full)
        R_wi == R_wo - i.ring_stiffener_web_height
        R_fi == R_wi - i.ring_stiffener_flange_thickness
        V_web == (R_wo * R_wo - R_wi * R_wi) * i.ring_stiffener_web_thickness
        V_flange == (R_wi * R_wi - R_fi * R_fi) * i.ring_stiffener_flange_width
    IN  sectionalInterp(s, i.s_full, i.rho_full) * (V_web + V_flange)

\* MemberComplex.add_ring_stiffener_sections (labor_cost_rate and
\* painting_cost_rate at their declared value 0, so the cost is the material cost)
add_ring_stiffener_sections(R, i, out) ==
    LET ss == IF i.ring_stiffener_spacing = 0 THEN <<>> ELSE StiffenerPositions(i)
    IN  IF i.ring_stiffener_spacing = 0 \/ One \div i.ring_stiffener_spacing = 0
        THEN [R |-> R, out |-> out]                               \* n_stiff == 0: return
        ELSE IF ss = <<>> THEN [R |-> [R EXCEPT !.err = TRUE], out |-> out]   \* s0[0] raises IndexError
        ELSE LET R1 == StiffenerLoop(R, i, ss, StiffenerExtents(ss, i.ring_stiffener_flange_width), 1)
                 m == [k \in 1 .. Len(ss) |-> RingMass(i, ss[k])]
                 c == [k \in 1 .. Len(ss) |-> sectionalInterp(ss[k], i.s_full, i.unit_cost_full) * m[k]]
             IN  [R |-> R1,
                  out |-> IF R1.err THEN out
                          ELSE [out EXCEPT !.stiffener_mass = SumSeq(m),
                                           !.stiffener_cost = SumSeq(c)]]

AddRingStiffenerSections ==
    /\ pc = "add_ring_stiffener_sections"
    /\ LET r == add_ring_stiffener_sections(Reg(sections, heap), inputs, outputs)
       IN  Step(r.R, r.out, "add_ring_stiffener_sections", "add_circular_ballast_sections")
    /\ UNCHANGED inputs

\* self.sections[s].rho += m / self.sections[s].A / H for each key of ks in
\* turn; None has no rho and raises
RECURSIVE AugmentAll(_, _, _, _)
AugmentAll(R, ks, m, H) ==
    IF R.err \/ ks = <<>> THEN R
    ELSE LET r == R.sec[Head(ks)]
         IN  IF r = NoneRef THEN [R EXCEPT !.err = TRUE]
             ELSE AugmentAll([R EXCEPT !.heap[r].rho = R.heap[r].rho + (m \div R.heap[r].A) \div H],
                             Tail(ks), m, H)

\* s_ballast after "s_ballast += s_ghost1": the array the input holds
ShiftedBallastGrid(i) ==
    [k \in 1 .. Len(i.ballast_grid) |->
        <<i.ballast_grid[k][1] + i.s_ghost1, i.ballast_grid[k][2] + i.s_ghost1>>]

\* s_ballast = np.minimum(s_ballast, s_ghost2)
ClampedBallastGrid(i) ==
    LET g == ShiftedBallastGrid(i)
    IN  [k \in 1 .. Len(g) |-> <<Min(g[k][1], i.s_ghost2), Min(g[k][2], i.s_ghost2)>>]

\* the density loop of an overlay that inserts nodes at the bounds of the
\* segment first, as the bulkhead and stiffener overlays do
RECURSIVE BallastLoopNodes(_, _, _, _)
BallastLoopNodes(R, i, sb, k) ==
    IF R.err \/ k > Len(sb) THEN R
    ELSE LET R1 == add_node(add_node(R, sb[k][1]), sb[k][2])
             InSeg == SortedSeq({s \in DOMAIN R1.sec : s >= sb[k][1] /\ s < sb[k][2]})
             m == i.ballast_density[k] * i.ballast_volume[k]
             H == sb[k][2] - sb[k][1]
         IN  BallastLoopNodes(AugmentAll(R1, InSeg, m, H), i, sb, k + 1)

\* for k in range(n_ballast): the density loop of segment k
RECURSIVE BallastLoop(_, _, _, _)
BallastLoop(R, i, sb, k) ==
    IF R.err \/ k > Len(sb) THEN R
    ELSE LET InSeg == SortedSeq({s \in DOMAIN R.sec : s >= sb[k][1] /\ s < sb[k][2]})
             m == i.ballast_density[k] * i.ballast_volume[k]
             H == sb[k][2] - sb[k][1]
         IN  BallastLoop(AugmentAll(R, InSeg, m, H), i, sb, k + 1)

\* sinterp = np.linspace(s0, s1, npts), taken on the whole grid steps from s0
\* to s1 rather than on npts = 10 points
BallastPts(s0, s1) == [j \in 1 .. (s1 - s0) + 1 |-> s0 + (j - 1)]

\* V_pts = frustum.frustumVol(R_id_pts[:-1], R_id_pts[1:], np.diff(zpts))
BallastVpts(i, pts) ==
    LET R_id(j) == i.outer_diameter \div 2 - sectionalInterp(pts[j], i.s_full, i.t_full)
    IN  [j \in 1 .. Len(pts) - 1 |-> frustumVol(R_id(j), R_id(j + 1), pts[j + 1] - pts[j])]

\* np.cumsum(np.r_[0, V_pts])
CumSum(V_pts) == [j \in 1 .. Len(V_pts) + 1 |-> SumSeq(SubSeq(V_pts, 1, j - 1))]

\* the position a volume V reaches, extended beyond the last point
BallastEndUnclamped(V, cumV, pts) ==
    IF cumV[Len(cumV)] = 0 THEN pts[1] + V
    ELSE pts[1] + (V * (pts[Len(pts)] - pts[1])) \div cumV[Len(cumV)]

\* s_end[k] = np.interp(V_ballast[k], np.cumsum(np.r_[0, V_pts]), sinterp)
BallastEnd(V, cumV, pts) == interp(V, cumV, pts)

\* s_end of segment k: s_ballast[k, 0] unless the ballast is permanent
BallastSEnd(i, sb, k) ==
    LET pts == BallastPts(sb[k][1], sb[k][2])
    IN  IF i.ballast_volume[k] > 0
        THEN BallastEnd(i.ballast_volume[k], CumSum(BallastVpts(i, pts)), pts)
        ELSE sb[k][1]

\* z_cg[k] = np.dot(cg_pts, V_pts) / V_pts.sum() on the points from s0 to
\* s_end, in half steps; 0 unless the ballast is permanent
BallastZcg(i, sb, k) ==
    LET pts == BallastPts(sb[k][1], BallastSEnd(i, sb, k))
        V_pts == BallastVpts(i, pts)
    IN  IF i.ballast_volume[k] > 0
        THEN FDiv(SumSeq([j \in 1 .. Len(V_pts) |-> (pts[j] + pts[j + 1]) * V_pts[j]]),
                  SumSeq(V_pts))
        ELSE 0

\* 1e-2: the unit of constr_ballast_capacity
RatioUnit == 100

\* m_ballast.sum()
BallastMass(i) ==
    SumSeq([k \in 1 .. Len(i.ballast_volume) |-> i.ballast_density[k] * i.ballast_volume[k]])

\* MemberComplex.add_circular_ballast_sections: the registry and the outputs
add_circular_ballast_sections(R, i, out) ==
    IF Len(i.ballast_volume) = 0 THEN [R |-> R, out |-> out]
    ELSE LET R1 == BallastLoop(R, i, ClampedBallastGrid(i), 1)
         IN  [R |-> R1,
              out |-> IF R1.err THEN out
                      ELSE LET sb == ClampedBallastGrid(i)
                               n == Len(i.ballast_volume)
                               z_cg == [k \in 1 .. n |-> BallastZcg(i, sb, k)]
                               m(k) == i.ballast_density[k] * i.ballast_volume[k]
                           IN  [out EXCEPT
                                  !.ballast_mass = BallastMass(i),
                                  !.ballast_z_cg =
                                      IF \E k \in 1 .. n : z_cg[k] = NonFinite THEN NonFinite
                                      ELSE IF BallastMass(i) = 0 THEN 0
                                      ELSE SumSeq([k \in 1 .. n |-> z_cg[k] * m(k)]) \div BallastMass(i),
                                  !.ballast_height =
                                      [k \in 1 .. n |-> BallastSEnd(i, sb, k) - sb[k][1]],
                                  !.constr_ballast_capacity =
                                      [k \in 1 .. n |->
                                          FDiv(RatioUnit * i.ballast_volume[k],
                                               SumSeq(BallastVpts(i, BallastPts(sb[k][1], sb[k][2]))))]]]

\* the ballast_grid input array after the method: "s_ballast += s_ghost1"
\* adds in place to the array inputs["ballast_grid"] holds
BallastGridAfter(i) ==
    IF Len(i.ballast_volume) = 0 THEN i.ballast_grid ELSE ShiftedBallastGrid(i)

AddCircularBallastSections ==
    /\ pc = "add_circular_ballast_sections"
    /\ LET r == add_circular_ballast_sections(Reg(sections, heap), inputs, outputs)
       IN  Step(r.R, r.out, "add_circular_ballast_sections", "compute_mass_properties")
    /\ inputs' = [inputs EXCEPT !.ballast_grid = BallastGridAfter(inputs)]

\* the outputs compute_mass_properties scales once: "outputs[...] *= coeff_user"
ScaledOnce ==
    {"shell_mass", "bulkhead_mass", "stiffener_mass",
     "shell_I_base", "ballast_I_base", "bulkhead_I_base", "stiffener_I_base"}

\* MemberComplex.compute_mass_properties on the outputs the record carries.
\* m_ballast is the array outputs["ballast_mass"] itself, so
\* "m_ballast *= coeff_user" scales the output, "outputs["ballast_mass"] *=
\* coeff_user" scales it again, and structural_mass reads the result.
compute_mass_properties(out, mass_user) ==
    LET m_total == out.shell_mass + out.ballast_mass + out.bulkhead_mass + out.stiffener_mass
        Scale(x) == IF mass_user = 0 THEN x ELSE FDiv(x * mass_user, m_total)
        m_ballast == Scale(out.ballast_mass)
        scaled == [f \in DOMAIN out |->
                      IF f \in ScaledOnce THEN Scale(out[f])
                      ELSE IF f = "ballast_mass" THEN Scale(m_ballast)
                      ELSE out[f]]
    IN  [scaled EXCEPT !.total_mass = Scale(m_total),
                       !.structural_mass = Scale(m_total) - scaled.ballast_mass]

ComputeMassProperties ==
    /\ pc = "compute_mass_properties"
    /\ Step(Reg(sections, heap), compute_mass_properties(outputs, inputs.total_mass_user),
            "compute_mass_properties", "nodal_discretization")
    /\ UNCHANGED inputs

\* for s in s_axial: self.add_node(s)
RECURSIVE AxialLoop(_, _)
AxialLoop(R, sa) ==
    IF R.err \/ sa = <<>> THEN R ELSE AxialLoop(add_node(R, Head(sa)), Tail(sa))

\* 10 ** 6, from round(6)
Million == 1000000

\* s.round(6) for a position held as s key units of which `one` make the
\* member length: the nearest multiple of 1e-6, a tie to the even one, as a
\* count of 1e-6
Round6(s, one) ==
    LET HalfEven(a, b) == LET q == a \div b
                              r == a % b
                          IN  IF 2 * r < b THEN q
                              ELSE IF 2 * r > b THEN q + 1
                              ELSE IF q % 2 = 0 THEN q ELSE q + 1
    IN  IF one % Million = 0 THEN HalfEven(s, one \div Million)
        ELSE HalfEven(s * Million, one)

\* np.unique(s_grid.round(6), return_index=True); s_grid[idx]: the first key
\* of every group of keys that round to the same value
UniqueKeys(sec, one) ==
    SortedSeq({k \in DOMAIN sec :
                 \A j \in DOMAIN sec : Round6(j, one) = Round6(k, one) => k <= j})

\* the fields nodal_discretization writes for one section
Report(o) ==
    [D |-> o.D, t |-> o.t, A |-> o.A, Asx |-> o.Asx, Asy |-> o.Asy, rho |-> o.rho,
     Ixx |-> o.Ixx, Iyy |-> o.Iyy, J0 |-> o.J0, E |-> o.E, G |-> o.G,
     TorsC |-> o.TorsC, sigma_y |-> o.sigy]

\* the number of leading keys of s_grid, the last one left out, that hold a section
RECURSIVE Reportable(_, _, _)
Reportable(sec, s_grid, k) ==
    IF k > Len(s_grid) - 1 \/ sec[s_grid[k]] = NoneRef THEN k - 1
    ELSE Reportable(sec, s_grid, k + 1)

\* MemberComplex.nodal_discretization: every array is reset to the sentinel,
\* then s_all[:n_nodes] and the section_* entries of every key but the last
\* are written. More than MEMMAX nodes cannot be stored (ValueError) and on
\* None.make_float() the outputs stay written up to the failing index.
nodal_discretization(R, i, out) ==
    LET R1 == AxialLoop(R, i.grid_axial_joints)
        s_grid == UniqueKeys(R1.sec, i.s_full[Len(i.s_full)])
        n_nodes == Len(s_grid)
        n == Reportable(R1.sec, s_grid, 1)
        cleared == [out EXCEPT !.s_all = NullArray,
                               !.section = [k \in 1 .. MEMMAX |-> NullSection]]
    IN  IF R1.err THEN [R |-> R1, out |-> out]
        ELSE IF n_nodes > MEMMAX THEN [R |-> [R1 EXCEPT !.err = TRUE], out |-> cleared]
        ELSE [R |-> [R1 EXCEPT !.err = n < n_nodes - 1],
              out |-> [cleared EXCEPT
                          !.s_all = [k \in 1 .. MEMMAX |->
                                        IF k <= n_nodes THEN s_grid[k] ELSE cleared.s_all[k]],
                          !.section = [k \in 1 .. MEMMAX |->
                                        IF k <= n THEN Report(R1.heap[R1.sec[s_grid[k]]])
                                        ELSE cleared.section[k]]]]

NodalDiscretization ==
    /\ pc = "nodal_discretization"
    /\ LET r == nodal_discretization(Reg(sections, heap), inputs, outputs)
       IN  Step(r.R, r.out, "nodal_discretization", "done")
    /\ UNCHANGED inputs

Next ==
    \/ SetInputs
    \/ Reevaluate
    \/ SetRingStiffenerSpacing
    \/ AddMainSections
    \/ AddBulkheadSections
    \/ AddRingStiffenerSections
    \/ AddCircularBallastSections
    \/ ComputeMassProperties
    \/ NodalDiscretization

Spec == Init /\ [][Next]_vars

-----------------------------------------------------------------------------
(* MemberHydro.compute: a vertical circular member of height One grid      *)
(* steps whose base is at z0 (z = 0 is the waterline), evaluated           *)
(* repeatedly on one component.  nodes_xyz is the caller's consistent      *)
(* joint1 + s_full * (joint2 - joint1); volumes are over pi.               *)

gravity == 9806       \* wisdem.commonse.gravity (9.80633), in 1e-3 m/s^2

HydroGrid == <<0, Mid, One>>

HydroInputChoices ==
    [z0 : {-One - 1, -One, -Mid - 1, -1, 0, 1},
     outer_diameter : {2, 4},
     s_ghost1 : {0, 1},
     s_ghost2 : {One - 1, One},
     rho_water : {1025}]

HydroDefaultOutputs ==
    [z_dim |-> [k \in 1 .. Len(HydroGrid) |-> 0], displacement |-> 0,
     buoyancy_force |-> 0, Awater |-> 0]

\* the submerged stations s_under after the two ghost clamps
HydroClamp(s_under, g1, g2) ==
    LET n == Len(s_under)
        a == IF s_under[1] < g1
             THEN SortedSeq({g1} \cup {Max(g1, s_under[k]) : k \in 1 .. n})
             ELSE s_under
        b == IF a[Len(a)] > g2
             THEN SortedSeq({Min(g2, a[k]) : k \in 1 .. Len(a)} \cup {g2})
             ELSE a
    IN  b

\* MemberHydro.compute; the outputs it assigns, on top of the component's
\* outputs as they stood
MemberHydroCompute(i, out) ==
    LET z == [k \in 1 .. Len(HydroGrid) |-> i.z0 + HydroGrid[k]]
        zmin == z[1]
        zmax == z[Len(z)]
        out1 == [out EXCEPT !.z_dim = z]
        waterline == zmin < 0 /\ zmax > 0
        s_under == IF waterline
                   THEN SelectSeq(HydroGrid, LAMBDA s : i.z0 + s < 0) \o <<interp(0, z, HydroGrid)>>
                   ELSE HydroGrid
        su == HydroClamp(s_under, i.s_ghost1, i.s_ghost2)
        z_under == [k \in 1 .. Len(su) |-> interp(su[k], HydroGrid, HydroGrid)]
        r == i.outer_diameter \div 2
        V == SumSeq([k \in 1 .. Len(su) - 1 |-> frustumVol(r, r, z_under[k + 1] - z_under[k])])
    IN  IF waterline \/ zmax < 0
        THEN [out1 EXCEPT !.displacement = V,
                          !.buoyancy_force = i.rho_water * V * gravity,
                          !.Awater = IF waterline THEN r * r ELSE 0]
        ELSE out1                                                  \* else: return

HydroInit ==
    /\ sections = EmptyDict
    /\ heap = <<>>
    /\ call = NoCall
    /\ pc = "hydro"
    /\ opt = <<>>
    /\ supplied = <<>>
    /\ inputs \in HydroInputChoices
    /\ outputs = MemberHydroCompute(inputs, HydroDefaultOutputs)
    /\ prev = [outputs |-> HydroDefaultOutputs, same |-> FALSE, after |-> "setup"]
    /\ evals = 1

\* the component is evaluated again with new input values
HydroCompute ==
    /\ pc = "hydro"
    /\ evals < MaxEvals
    /\ \E i \in HydroInputChoices :
          /\ inputs' = i
          /\ outputs' = MemberHydroCompute(i, outputs)
          /\ prev' = [outputs |-> outputs, same |-> i = inputs, after |-> "hydro"]
    /\ evals' = evals + 1
    /\ UNCHANGED <<sections, heap, call, pc, opt, supplied>>

HydroNext == HydroCompute

SpecHydro == HydroInit /\ [][HydroNext]_vars

-----------------------------------------------------------------------------
(* Global2MemberLoads.compute in memmax mode, for a vertical member: the   *)
(* component reads the s_all a MemberComplex evaluation has emitted and    *)
(* global loads given at the nodes of s_full.                              *)

\* the s_all arrays of n nodes, 2 <= n <= MEMMAX: 0, interior keys, One, then
\* the sentinel
EmittedGrids ==
    {[k \in 1 .. MEMMAX |->
         IF k <= Cardinality(K) + 2 THEN SortedSeq(K \cup {0, One})[k] ELSE NULL] :
       K \in {X \in SUBSET (1 .. One - 1) : Cardinality(X) + 2 <= MEMMAX}}

LoadsInputChoices ==
    [s_all : EmittedGrids,
     s_full : {HydroGrid},
     Px_global : {<<0, 6, 12>>, <<6, 6, 6>>},
     Py_global : {<<0, 0, 0>>},
     Pz_global : {<<-12, -6, 0>>, <<0, 0, 0>>},
     qdyn_global : {<<0, 12, 24>>}]

\* setup() with memmax: initval = NULL * np.ones(MEMMAX)
LoadsDefaultOutputs ==
    [Px |-> NullArray, Py |-> NullArray, Pz |-> NullArray, qdyn |-> NullArray]

\* np.where(a == NULL)[0]: the indices (from 0) of the sentinel entries
WhereNull(a) == SortedSeq({k - 1 : k \in {j \in 1 .. Len(a) : a[j] = NULL}})

\* util.rotate_align_vectors(dxyz, unit_x) applied to a load vector, for a
\* vertical member: the rotation by a quarter turn about y that takes z to x
RotateToAxis(P) == [x |-> P.z, y |-> P.y, z |-> -P.x]

\* Global2MemberLoads.compute with memmax = True; err when [0][0] finds no
\* sentinel (IndexError), and then no output is assigned
Global2MemberLoadsCompute(i, out) ==
    LET w == WhereNull(i.s_all)
    IN  IF w = <<>> THEN [err |-> TRUE, out |-> out]
        ELSE LET nnode == w[1]
                 s_grid == SubSeq(i.s_all, 1, nnode)
                 Pg(k) == [x |-> interp(s_grid[k], i.s_full, i.Px_global),
                           y |-> interp(s_grid[k], i.s_full, i.Py_global),
                           z |-> interp(s_grid[k], i.s_full, i.Pz_global)]
                 fill(v(_)) == [k \in 1 .. MEMMAX |-> IF k <= nnode THEN v(k) ELSE NullArray[k]]
                 lx(k) == RotateToAxis(Pg(k)).x
                 ly(k) == RotateToAxis(Pg(k)).y
                 lz(k) == RotateToAxis(Pg(k)).z
                 q(k) == interp(s_grid[k], i.s_full, i.qdyn_global)
             IN  [err |-> FALSE,
                  out |-> [Px |-> fill(lx), Py |-> fill(ly), Pz |-> fill(lz), qdyn |-> fill(q)]]

LoadsInit ==
    /\ sections = EmptyDict
    /\ heap = <<>>
    /\ call = NoCall
    /\ pc = "loads"
    /\ opt = <<>>
    /\ supplied = <<>>
    /\ inputs \in LoadsInputChoices
    /\ outputs = LoadsDefaultOutputs
    /\ prev = [outputs |-> LoadsDefaultOutputs, same |-> FALSE, after |-> "setup"]
    /\ evals = 0

\* the component is evaluated on its inputs
LoadsCompute ==
    /\ pc = "loads"
    /\ LET r == Global2MemberLoadsCompute(inputs, outputs)
       IN  /\ outputs' = r.out
           /\ pc' = IF r.err THEN "loads_error" ELSE "loads_done"
    /\ prev' = [outputs |-> outputs, same |-> FALSE, after |-> "loads"]
    /\ evals' = evals + 1
    /\ UNCHANGED <<sections, heap, call, opt, supplied, inputs>>

LoadsNext == LoadsCompute

SpecLoads == LoadsInit /\ [][LoadsNext]_vars

-----------------------------------------------------------------------------
(* MemberDiscretization.compute: the refined grid s_full of a control grid *)
(* s and a refinement factor n_refine.  Positions are whole multiples of a *)
(* step fine enough that every sub-interval and every midpoint the code    *)
(* computes is a whole number of steps.                                    *)

MaxRefine == 3      \* n_refine is 1 .. MaxRefine
MaxPts == 3         \* n_height is 2 .. MaxPts

RECURSIVE Fact(_)
Fact(n) == IF n <= 1 THEN 1 ELSE n * Fact(n - 1)

\* the spacing of the candidate control points
RefUnit == 2 * Fact(MaxRefine)

get_nfull(npts, nref) == 1 + nref * (npts - 1)

\* np.linspace(a, b, n_refine + 1) without its last point
LinspaceOpen(a, b, r) == [j \in 1 .. r |-> a + ((j - 1) * (b - a)) \div r]

\* np.linspace(a, b, n_refine + 1)
Linspace(a, b, r) == [j \in 1 .. r + 1 |-> a + ((j - 1) * (b - a)) \div r]

\* for k in range(s_param.size - 1): s_full = np.append(s_full, sref);
\* s_full = np.unique(s_full)
RefinedGrid(s_param, r) ==
    LET sref(k) == Linspace(s_param[k], s_param[k + 1], r)
    IN  SortedSeq(UNION {{sref(k)[j] : j \in DOMAIN sref(k)} : k \in 1 .. Len(s_param) - 1})

\* the strictly increasing control grids of n points
ControlGrids(n) ==
    {SortedSeq({RefUnit * x : x \in K}) :
        K \in {X \in SUBSET (0 .. MaxPts + 1) : Cardinality(X) = n}}

\* the control values of the outer diameter: constant or tapered from the
\* first node; whole multiples of RefUnit, so that every interpolated radius
\* is whole
DiameterChoices(n) ==
    {[k \in 1 .. n |-> 3 * RefUnit],
     [k \in 1 .. n |-> IF k = 1 THEN 3 * RefUnit ELSE 2 * RefUnit]}

\* the control values of the wall thickness: constant or stepped
ThicknessChoices(n) == {[k \in 1 .. n - 1 |-> 2], [k \in 1 .. n - 1 |-> k]}

DiscInputChoices ==
    UNION {[n_height : {n}, n_refine : 1 .. MaxRefine, s : ControlGrids(n),
            height : {3},
            outer_diameter : DiameterChoices(n),
            wall_thickness : ThicknessChoices(n),
            rho : {[k \in 1 .. n - 1 |-> k]},
            unit_cost : {[k \in 1 .. n - 1 |-> 1]},
            outfitting_factor : {[k \in 1 .. n - 1 |-> 1]}] : n \in 2 .. MaxPts}

\* setup(): the outputs are declared with get_nfull(n_height, n_refine) nodes
DiscDefaultOutputs(i) ==
    LET n_full == get_nfull(i.n_height, i.n_refine)
    IN  [s_full |-> [k \in 1 .. n_full |-> 0],
         z_full |-> [k \in 1 .. n_full |-> 0],
         outer_diameter_full |-> [k \in 1 .. n_full |-> 0],
         t_full |-> [k \in 1 .. n_full - 1 |-> 0],
         rho_full |-> [k \in 1 .. n_full - 1 |-> 0],
         unit_cost_full |-> [k \in 1 .. n_full - 1 |-> 0],
         outfitting_full |-> [k \in 1 .. n_full - 1 |-> 1]]

\* MemberDiscretization.compute; an s_full of another size than declared
\* cannot be assigned to the output
MemberDiscretizationCompute(i, out) ==
    LET s_full == RefinedGrid(i.s, i.n_refine)
        s_section == [k \in 1 .. Len(s_full) - 1 |-> (s_full[k] + s_full[k + 1]) \div 2]
        nodal(y) == [k \in 1 .. Len(s_full) |-> interp(s_full[k], i.s, y)]
        sectional(y) == [k \in 1 .. Len(s_section) |-> sectionalInterp(s_section[k], i.s, y)]
    IN  IF Len(s_full) # Len(out.s_full) THEN [err |-> TRUE, out |-> out]
        ELSE [err |-> FALSE,
              out |-> [out EXCEPT
                          !.s_full = s_full,
                          !.z_full = [k \in 1 .. Len(s_full) |-> s_full[k] * i.height],
                          !.outer_diameter_full = nodal(i.outer_diameter),
                          !.t_full = sectional(i.wall_thickness),
                          !.rho_full = sectional(i.rho),
                          !.unit_cost_full = sectional(i.unit_cost),
                          !.outfitting_full = sectional(i.outfitting_factor)]]

DiscInit ==
    /\ sections = EmptyDict
    /\ heap = <<>>
    /\ call = NoCall
    /\ pc = "disc"
    /\ opt = <<>>
    /\ supplied = <<>>
    /\ inputs \in DiscInputChoices
    /\ outputs = DiscDefaultOutputs(inputs)
    /\ prev = [outputs |-> <<>>, same |-> FALSE, after |-> "setup"]
    /\ evals = 0

DiscCompute ==
    /\ pc = "disc"
    /\ LET r == MemberDiscretizationCompute(inputs, outputs)
       IN  /\ outputs' = r.out
           /\ pc' = IF r.err THEN "disc_error" ELSE "disc_done"
    /\ evals' = evals + 1
    /\ UNCHANGED <<sections, heap, call, opt, supplied, inputs, prev>>

DiscNext == DiscCompute

SpecDisc == DiscInit /\ [][DiscNext]_vars

-----------------------------------------------------------------------------
(* DiscretizationYAML.compute for a vertical member of three grid points   *)
(* and two material layers.  Thicknesses are even so that the section      *)
(* averages are whole; the 1e-3 of the constant-section tests is less than *)
(* a grid step.                                                            *)

\* rho_mat and unit_cost_mat of the materials of the two layers
RhoMat == <<8, 2>>
UnitCostMat == <<1, 3>>

YamlInputChoices ==
    [shape : {"circular", "rectangular"},
     joint1 : {0},
     joint2 : {0, 2},
     s_in : {<<0, 3, 6>>, <<0, 3, 3>>, <<0, 0, 6>>, <<0, 6, 3>>},
     layer_thickness : {<<a, b>> : a \in {<<2, 2, 2>>, <<0, 0, 2>>, <<0, 0, 0>>, <<2, 0, 0>>},
                                   b \in {<<0, 0, 0>>, <<2, 2, 2>>}},
     outer_diameter_in : {<<4, 4, 4>>, <<4, 0, 4>>, <<4, -2, 4>>},
     side_length_a_in : {<<4, 4, 4>>, <<0, 4, 4>>},
     side_length_b_in : {<<4, 4, 4>>},
     outfitting_factor_in : {1},
     s_const1 : {0, 1},
     s_const2 : {0, One - 1}]

\* s_param after the two "constant section" blocks, and whether an index
\* into an empty np.where result raised IndexError
ConstSections(i) ==
    LET linspace(a, b, num) == IF num <= 0 THEN <<>>
                               ELSE IF num = 1 THEN <<a>>
                               ELSE Linspace(a, b, num - 1)
        flipud(q) == [k \in 1 .. Len(q) |-> q[Len(q) + 1 - k]]
        n_height == Len(i.s_in)
        above == {k \in 1 .. Len(i.s_in) : i.s_in[k] > i.s_const1}
        icheck0 == (CHOOSE k \in above : \A j \in above : k <= j) - 1
        p == IF i.s_const1 > 0 /\ above # {}
             THEN <<0>> \o linspace(i.s_const1, i.s_in[icheck0 + 1], icheck0)
                        \o SubSeq(i.s_in, icheck0 + 2, Len(i.s_in))
             ELSE i.s_in
        below == {k \in 1 .. Len(p) : p[k] < i.s_const2}
        icheck1 == (CHOOSE k \in below : \A j \in below : k >= j) - 1
    IN  IF i.s_const1 > 0 /\ above = {} THEN [err |-> TRUE, s |-> <<>>]
        ELSE IF i.s_const2 > 0 /\ below = {} THEN [err |-> TRUE, s |-> <<>>]
        ELSE IF i.s_const2 > 0
        THEN [err |-> FALSE,
              s |-> SubSeq(p, 1, icheck1 + 1)
                    \o flipud(linspace(i.s_const2, p[icheck1 + 1], n_height - icheck1 - 1))
                    \o <<One>>]
        ELSE [err |-> FALSE, s |-> p]

\* setup(): the declared values of the outputs
YamlDefaultOutputs ==
    [s |-> <<0, 0, 0>>, height |-> 0, section_height |-> <<0, 0>>,
     wall_thickness |-> <<0, 0>>, outer_diameter |-> <<0, 0, 0>>,
     side_length_a |-> <<0, 0, 0>>, side_length_b |-> <<0, 0, 0>>,
     outfitting_factor |-> <<1, 1>>, rho |-> <<0, 0>>, unit_cost |-> <<0, 0>>]

AnyNonPositive(a) == \E k \in DOMAIN a : a[k] <= 0

\* the checks "make sure we have good values" without the one on the wall
\* thickness
BadValuesNoThickness(out, shape) ==
    \/ AnyNonPositive(out.section_height)
    \/ shape = "circular" /\ AnyNonPositive(out.outer_diameter)
    \/ shape = "rectangular" /\ (AnyNonPositive(out.side_length_a) \/ AnyNonPositive(out.side_length_b))

\* the checks "make sure we have good values", made on the outputs just written
BadValues(out, shape) ==
    \/ AnyNonPositive(out.section_height)
    \/ AnyNonPositive(out.wall_thickness)
    \/ shape = "circular" /\ AnyNonPositive(out.outer_diameter)
    \/ shape = "rectangular" /\ (AnyNonPositive(out.side_length_a) \/ AnyNonPositive(out.side_length_b))

\* DiscretizationYAML.compute: the grid is built, the geometry outputs are
\* written, then checked, then the layer loop and the two weighted divisions
\* run; divisors lists the divisors of the divisions executed, in order.
\* An array of another length than the output declared by setup() cannot be
\* stored: the assignment raises and nothing has been written.
DiscretizationYAMLCompute(i, out) ==
    LET h_col == Isqrt((i.joint2 - i.joint1) * (i.joint2 - i.joint1))
        n == Len(i.s_in)
        grid == ConstSections(i)
        s_param == grid.s
        lthick == [k \in 1 .. Len(i.layer_thickness) |->
                      [j \in 1 .. n - 1 |->
                          (i.layer_thickness[k][j] + i.layer_thickness[k][j + 1]) \div 2]]
        tsum == [j \in 1 .. n - 1 |-> SumSeq([k \in 1 .. Len(lthick) |-> lthick[k][j]])]
        out0 == [out EXCEPT !.s = s_param,
                            !.height = h_col,
                            !.section_height = [j \in 1 .. n - 1 |-> h_col * (s_param[j + 1] - s_param[j])],
                            !.wall_thickness = tsum,
                            !.outfitting_factor = [j \in 1 .. n - 1 |-> i.outfitting_factor_in]]
        out1 == IF i.shape = "circular"
                THEN [out0 EXCEPT !.outer_diameter = i.outer_diameter_in]
                ELSE [out0 EXCEPT !.side_length_a = i.side_length_a_in,
                                  !.side_length_b = i.side_length_b_in]
        imass(k, j) == RhoMat[k] * lthick[k][j]
        rho_sum == [j \in 1 .. n - 1 |-> SumSeq([k \in 1 .. Len(lthick) |-> imass(k, j)])]
        cost_sum == [j \in 1 .. n - 1 |->
                        SumSeq([k \in 1 .. Len(lthick) |-> imass(k, j) * UnitCostMat[k]])]
    IN  IF grid.err \/ Len(s_param) # Len(out.s)
        THEN [err |-> TRUE, out |-> out, divisors |-> <<>>, s_param |-> s_param]
        ELSE IF BadValues(out1, i.shape)
        THEN [err |-> TRUE, out |-> out1, divisors |-> <<>>, s_param |-> s_param]
        ELSE [err |-> FALSE, s_param |-> s_param,
              out |-> [out1 EXCEPT
                          !.unit_cost = [j \in 1 .. n - 1 |-> FDiv(cost_sum[j], rho_sum[j])],
                          !.rho = [j \in 1 .. n - 1 |-> FDiv(rho_sum[j], tsum[j])]],
              divisors |-> rho_sum \o tsum]

YamlInit ==
    /\ sections = EmptyDict
    /\ heap = <<>>
    /\ call = NoCall
    /\ pc = "yaml"
    /\ opt = <<>>
    /\ supplied = <<>>
    /\ inputs \in YamlInputChoices
    /\ outputs = YamlDefaultOutputs
    /\ prev = [outputs |-> YamlDefaultOutputs, same |-> FALSE, after |-> "setup"]
    /\ evals = 0

\* the component is evaluated on its inputs
YamlCompute ==
    /\ pc = "yaml"
    /\ LET r == DiscretizationYAMLCompute(inputs, outputs)
       IN  /\ outputs' = r.out
           /\ pc' = IF r.err THEN "yaml_error" ELSE "yaml_done"
           /\ call' = [op |-> "DiscretizationYAML.compute", raised |-> r.err,
                       divisors |-> r.divisors, s_param |-> r.s_param]
    /\ prev' = [outputs |-> outputs, same |-> FALSE, after |-> "yaml"]
    /\ evals' = evals + 1
    /\ UNCHANGED <<sections, heap, opt, supplied, inputs>>

YamlNext == YamlCompute

SpecYaml == YamlInit /\ [][YamlNext]_vars

-----------------------------------------------------------------------------
(* MemberComplex.compute_mass_properties on the component masses and base  *)
(* inertias the overlay methods have left in the outputs, with and without *)
(* the override total_mass_user.  The override values are multiples of     *)
(* every unscaled total mass, so every scaling is exact.                   *)

\* the unit of the override: a multiple of every total of 10 .. 60
MassUserUnit == 600

MassInputChoices == [total_mass_user : {0, MassUserUnit, 2 * MassUserUnit}]

\* the outputs before the roll-up: total_mass and structural_mass as declared
MassOutputChoices ==
    [shell_mass : {10, 20}, bulkhead_mass : {0, 10}, stiffener_mass : {0, 10},
     ballast_mass : {0, 10, 20},
     shell_I_base : {50}, bulkhead_I_base : {0, 7}, stiffener_I_base : {3},
     ballast_I_base : {11},
     total_mass : {0}, structural_mass : {0}]

MassInit ==
    /\ sections = EmptyDict
    /\ heap = <<>>
    /\ call = NoCall
    /\ pc = "mass"
    /\ opt = <<>>
    /\ supplied = <<>>
    /\ inputs \in MassInputChoices
    /\ outputs \in MassOutputChoices
    /\ prev = [outputs |-> outputs, same |-> FALSE, after |-> "setup"]
    /\ evals = 0

\* the roll-up runs on the outputs
MassCompute ==
    /\ pc = "mass"
    /\ outputs' = compute_mass_properties(outputs, inputs.total_mass_user)
    /\ prev' = [outputs |-> outputs, same |-> FALSE, after |-> "mass"]
    /\ pc' = "mass_done"
    /\ evals' = evals + 1
    /\ UNCHANGED <<sections, heap, call, opt, supplied, inputs>>

MassNext == MassCompute

SpecMass == MassInit /\ [][MassNext]_vars

-----------------------------------------------------------------------------
(* ShellMassCost.compute on the refined grid MemberDiscretization emits    *)
(* for a member from s = 0 to s = 1 without ghost regions.  Volumes and    *)
(* masses are over pi, the polar inertia in units of pi/10.                *)

\* s = 1.0 on the control grid
ShellOne == RefUnit * (MaxPts + 1)

\* np.sqrt, rounded down, by bisection
RECURSIVE SqrtBetween(_, _, _)
SqrtBetween(n, lo, hi) ==
    IF hi - lo <= 1 THEN lo
    ELSE LET mid == (lo + hi) \div 2
         IN  IF mid * mid <= n THEN SqrtBetween(n, mid, hi) ELSE SqrtBetween(n, lo, mid)

\* the root of a 32-bit integer is below 46341
Sqrt(n) == IF n < 1 THEN 0 ELSE SqrtBetween(n, 1, Min(n + 1, 46341))

\* frustum.frustumShellCG times frustum.frustumShellVol, over pi: the first
\* moment of the shell about its lower end, h^2 (rb^2 + 2 rb rt + 3 rt^2) / 12
\* for a full frustum
frustumShellMoment(Rb, Rt, t, H) ==
    LET M(rb, rt) == (H * H * (rb * rb + 2 * rb * rt + 3 * rt * rt)) \div 12
    IN  M(Rb, Rt) - M(Rb - t, Rt - t)

\* frustum.frustumShellIzz in units of pi/10: h (rb^5 - rt^5) / (rb - rt)
\* for a full frustum
frustumShellIzz(Rb, Rt, t, H) ==
    LET J(rb, rt) == H * (rb * rb * rb * rb + rb * rb * rb * rt + rb * rb * rt * rt
                            + rb * rt * rt * rt + rt * rt * rt * rt)
    IN  J(Rb, Rt) - J(Rb - t, Rt - t)

\* manufacture.steel_cutting_plasma_time(length, thickness): the cut lengths
\* over a cutting speed that falls with the thickness, summed
steel_cutting_plasma_time(length, thickness) ==
    SumSeq([k \in 1 .. Len(length) |-> length[k] * thickness[k]])

\* manufacture.steel_rolling_time(theta, radius, thickness): one rolling
\* time per section, growing with its radius and thickness, whatever its
\* height; radius2 is twice R_ave
steel_rolling_time(theta, radius2, thickness) ==
    SumSeq([k \in 1 .. Len(theta) |-> theta[k] * (radius2[k] + thickness[k])])

\* manufacture.steel_butt_welding_time(theta, nsec, mtotal, length,
\* thickness): a preparation time theta sqrt(nsec mtotal) and a welding time
\* proportional to the weld lengths
steel_butt_welding_time(theta, nsec, mtotal, length, thickness) ==
    theta * Sqrt(nsec * mtotal)
        + SumSeq([k \in 1 .. Len(length) |-> length[k] * thickness[k] * thickness[k]])

\* the weld difficulty 4 - 3 / (1 + exp(-5 (taper - 0.75))), as a step at
\* taper = 0.75
theta_F(Rb, Rt) == IF 4 * Min(Rb, Rt) >= 3 * Max(Rb, Rt) THEN 2 ELSE 3

\* the control points a member from s = 0 to s = 1 is given by
ShellControlChoices == {c \in DiscInputChoices : c.s[1] = 0 /\ c.s[c.n_height] = ShellOne}

\* the inputs of ShellMassCost: the outputs of MemberDiscretization for the
\* control points c, the ghost positions at their declared values, and the
\* cost rates
ShellInputs(c, labor, painting) ==
    LET g == MemberDiscretizationCompute(c, DiscDefaultOutputs(c)).out
    IN  [s_full |-> g.s_full, z_full |-> g.z_full,
         outer_diameter_full |-> g.outer_diameter_full, t_full |-> g.t_full,
         rho_full |-> g.rho_full, unit_cost_full |-> g.unit_cost_full,
         outfitting_full |-> g.outfitting_full,
         s_ghost1 |-> 0, s_ghost2 |-> ShellOne,
         labor_cost_rate |-> labor, painting_cost_rate |-> painting,
         shell_mass_user |-> 0]

ShellDefaultOutputs ==
    [shell_mass |-> 0, shell_z_cg |-> 0, shell_I_base |-> 0, shell_cost |-> 0,
     labor_hours |-> 0]

\* ShellMassCost.compute, from "Shell mass properties with new interpolation"
\* on: mass, centre of mass (in 1e-2 of a step), polar base inertia, labour
\* and cost
ShellMassCostCompute(i, out) ==
    LET s_grid == SortedSeq({i.s_ghost1, i.s_ghost2} \cup {i.s_full[k] : k \in DOMAIN i.s_full})
        nsec == Len(s_grid) - 1
        s_section == [k \in 1 .. nsec |-> (s_grid[k] + s_grid[k + 1]) \div 2]
        R_od == [k \in DOMAIN i.outer_diameter_full |-> i.outer_diameter_full[k] \div 2]
        R == [k \in 1 .. nsec + 1 |-> interp(s_grid[k], i.s_full, R_od)]
        zz == [k \in 1 .. nsec + 1 |-> interp(s_grid[k], i.s_full, i.z_full)]
        H == [k \in 1 .. nsec |-> zz[k + 1] - zz[k]]
        t_full == [k \in 1 .. nsec |-> sectionalInterp(s_section[k], i.s_full, i.t_full)]
        rho == [k \in 1 .. nsec |->
                   IF s_section[k] < i.s_ghost1 \/ s_section[k] > i.s_ghost2 THEN 0
                   ELSE sectionalInterp(s_section[k], i.s_full, i.rho_full)]
        coeff == [k \in 1 .. nsec |-> sectionalInterp(s_section[k], i.s_full, i.outfitting_full)]
        k_m == [k \in 1 .. nsec |-> sectionalInterp(s_section[k], i.s_full, i.unit_cost_full)]
        V_shell == [k \in 1 .. nsec |-> frustumShellVol(R[k], R[k + 1], t_full[k], H[k])]
        mass == [k \in 1 .. nsec |-> coeff[k] * rho[k] * V_shell[k]]
        moment == [k \in 1 .. nsec |->
                      coeff[k] * rho[k]
                        * (zz[k] * V_shell[k] + frustumShellMoment(R[k], R[k + 1], t_full[k], H[k]))]
        J0_section == [k \in 1 .. nsec |->
                          coeff[k] * rho[k] * frustumShellIzz(R[k], R[k + 1], t_full[k], H[k])]
        mshell == [k \in 1 .. nsec |-> rho[k] * V_shell[k]]
        mshell_tot == SumSeq(mshell)
        cutLengths == [k \in 1 .. nsec |->
                          2 * Sqrt((R[k + 1] - R[k]) * (R[k + 1] - R[k]) + H[k] * H[k])]
        theta == [k \in 1 .. nsec |-> theta_F(R[k], R[k + 1])]
        R_ave2 == [k \in 1 .. nsec |-> R[k] + R[k + 1]]
        theta_A == 2
        labor_minutes ==
            steel_cutting_plasma_time(cutLengths, t_full)
              + steel_rolling_time(theta, R_ave2, t_full)
              + steel_butt_welding_time(theta_A, nsec, mshell_tot, cutLengths, t_full)
              + steel_butt_welding_time(theta_A, nsec, mshell_tot,
                                        [k \in 1 .. nsec - 1 |-> 2 * R[k + 1]],
                                        [k \in 1 .. nsec - 1 |-> t_full[k + 1]])
        K_f == i.labor_cost_rate * labor_minutes
        K_p == i.painting_cost_rate * 2 * SumSeq([k \in 1 .. nsec |-> R_ave2[k] * H[k]])
        K_o == SumSeq([k \in 1 .. nsec |-> (3 * k_m[k] * (coeff[k] - 1) * mshell[k]) \div 2])
        K_m == (121 * SumSeq([k \in 1 .. nsec |-> k_m[k] * mshell[k]])) \div 100
        K_e == SumSeq([k \in 1 .. nsec |-> mshell[k] + 2 * (coeff[k] - 1) * mshell[k]])
        tempSum == K_m + K_e + K_o + K_p + K_f
        K_c == (118 * tempSum) \div 882
    IN  [out EXCEPT !.shell_mass = SumSeq(mass),
                    !.shell_z_cg = FDiv(RatioUnit * SumSeq(moment), SumSeq(mass)),
                    !.shell_I_base = SumSeq(J0_section),
                    !.labor_hours = labor_minutes \div 60,
                    !.shell_cost = tempSum + K_c]

ShellInit ==
    /\ sections = EmptyDict
    /\ heap = <<>>
    /\ call = NoCall
    /\ pc = "shell"
    /\ opt = <<>>
    /\ supplied \in ShellControlChoices
    /\ \E labor \in {0, 1}, painting \in {0, 1} :
          inputs = ShellInputs(supplied, labor, painting)
    /\ outputs = ShellDefaultOutputs
    /\ prev = [outputs |-> ShellDefaultOutputs, same |-> FALSE, after |-> "setup"]
    /\ evals = 0

\* the component is evaluated on its inputs
ShellCompute ==
    /\ pc = "shell"
    /\ outputs' = ShellMassCostCompute(inputs, outputs)
    /\ prev' = [outputs |-> outputs, same |-> FALSE, after |-> "shell"]
    /\ pc' = "shell_done"
    /\ evals' = evals + 1
    /\ UNCHANGED <<sections, heap, call, opt, supplied, inputs>>

ShellNext == ShellCompute

SpecShell == ShellInit /\ [][ShellNext]_vars

-----------------------------------------------------------------------------
(* MemberComplex.compute up to add_ring_stiffener_sections, for bulkheads  *)
(* at any grid position, in any order, of any thickness of a whole number  *)
(* of grid steps, and ring stiffeners of any spacing and flange width.     *)
(* The loop that moves a stiffener away from the bulkheads runs one        *)
(* iteration per step, MaxNudge iterations at most for one stiffener.      *)

MaxNudge == 3

\* the inputs of the evaluation: a member of three nodes, no ballast, up to
\* MaxBulk bulkheads; the web is as thick as the flange is wide
BulkInit ==
    /\ sections = EmptyDict
    /\ heap = <<>>
    /\ call = NoCall
    /\ pc = "add_bulkhead_sections"
    /\ inputs \in
           {[i EXCEPT !.s_ghost1 = g1, !.s_ghost2 = g2,
                      !.bulkhead_grid = b.bulkhead_grid,
                      !.bulkhead_thickness = b.bulkhead_thickness,
                      !.ring_stiffener_spacing = P,
                      !.ring_stiffener_flange_width = w,
                      !.ring_stiffener_web_thickness = w] :
               i \in InputChoices([n_bulk |-> 0, n_ball |-> 0, n_axial |-> 0, n_height |-> 3]),
               g1 \in {0, 1}, g2 \in {One - 1, One},
               b \in UNION {[bulkhead_grid : [1 .. n -> 0 .. One],
                             bulkhead_thickness : [1 .. n -> {0, 2, 4}]] : n \in 0 .. MaxBulk},
               P \in {0, 2, One}, w \in {0, 2, 4}}
    /\ opt = [n_bulk |-> Len(inputs.bulkhead_grid), n_ball |-> 0, n_axial |-> 0, n_height |-> 3]
    /\ supplied = inputs
    /\ outputs = DefaultOutputs(opt)
    /\ prev = NotStarted(opt)
    /\ evals = 1

\* add_main_sections, then add_bulkhead_sections; `call` keeps the registry
\* the method found and the extents it computed for insert_section
BulkCompute ==
    /\ pc = "add_bulkhead_sections"
    /\ call.op = "init"
    /\ LET m == add_main_sections(Reg(EmptyDict, <<>>), inputs, outputs)
           r == add_bulkhead_sections(m.R, inputs, m.out)
           nbulk == Len(inputs.bulkhead_grid)
           sb == SortedSeq({Min(Max(inputs.bulkhead_grid[k], inputs.s_ghost1), inputs.s_ghost2) :
                               k \in 1 .. nbulk})
           ext == IF nbulk = 0 \/ (Len(sb) # nbulk /\ Len(sb) # 1)
                  THEN [s0 |-> <<>>, s1 |-> <<>>]
                  ELSE BulkheadExtents(sb, inputs.bulkhead_thickness,
                                       inputs.s_ghost1, inputs.s_ghost2)
       IN  /\ ~m.R.err
           /\ sections' = r.R.sec
           /\ heap' = r.R.heap
           /\ call' = [op |-> "add_bulkhead_sections", s0 |-> ext.s0, s1 |-> ext.s1,
                       ref |-> NoneRef, pre |-> m.R, raised |-> r.R.err, n |-> Len(sb)]
           /\ outputs' = r.out
           /\ pc' = IF r.R.err THEN "error" ELSE "add_ring_stiffener_sections"
    /\ UNCHANGED <<opt, inputs, supplied, prev, evals>>

\* add_ring_stiffener_sections up to the loop over s_stiff: the candidate
\* positions inside (s_ghost1, s_ghost2). No candidate at all returns; no
\* candidate left after the ghost filter raises IndexError at s0[0].
StiffStart ==
    /\ pc = "add_ring_stiffener_sections"
    /\ LET P == inputs.ring_stiffener_spacing
           n == IF P = 0 THEN 0 ELSE One \div P
           cand == [k \in 1 .. n |-> ((2 * k - 1) * P) \div 2]
           kept == SelectSeq(cand, LAMBDA x : x > inputs.s_ghost1 /\ x < inputs.s_ghost2)
       IN  /\ pc' = IF n = 0 THEN "done" ELSE IF kept = <<>> THEN "error" ELSE "nudge"
           /\ call' = [op |-> "nudge", s0 |-> <<>>, s1 |-> <<>>, ref |-> NoneRef,
                       pre |-> Reg(sections, heap), raised |-> n # 0 /\ kept = <<>>,
                       n |-> 1, s |-> IF kept = <<>> THEN 0 ELSE kept[1], s_stiff |-> kept,
                       iter |-> 0]
    /\ UNCHANGED <<sections, heap, opt, inputs, supplied, outputs, prev, evals>>

\* while np.any(np.abs(s_bulk - s) <= tol) and s > tol
NudgeCondition ==
    /\ \E k \in 1 .. Len(inputs.bulkhead_grid) :
          Abs(inputs.bulkhead_grid[k] - call.s) <= inputs.ring_stiffener_flange_width
    /\ call.s > inputs.ring_stiffener_flange_width

\* one iteration of the loop: s -= tol
NudgeStep ==
    /\ pc = "nudge"
    /\ NudgeCondition
    /\ call.iter < MaxNudge
    /\ call' = [call EXCEPT !.s = @ - inputs.ring_stiffener_flange_width,
                            !.iter = @ + 1]
    /\ UNCHANGED <<sections, heap, pc, opt, inputs, supplied, outputs, prev, evals>>

\* the loop is left: s_stiff[k] = s, then the next stiffener; after the last
\* one the rest of the method, with the extents it hands to insert_section
NudgeExit ==
    /\ pc = "nudge"
    /\ ~NudgeCondition
    /\ LET ss == [call.s_stiff EXCEPT ![call.n] = call.s]
       IN  IF call.n < Len(ss)
           THEN /\ call' = [call EXCEPT !.s_stiff = ss, !.n = @ + 1, !.s = ss[call.n + 1],
                                        !.iter = 0]
                /\ UNCHANGED <<sections, heap, pc, outputs>>
           ELSE LET r == add_ring_stiffener_sections(Reg(sections, heap), inputs, outputs)
                    ext == StiffenerExtents(ss, inputs.ring_stiffener_flange_width)
                IN  /\ sections' = r.R.sec
                    /\ heap' = r.R.heap
                    /\ outputs' = r.out
                    /\ call' = [call EXCEPT !.op = "add_ring_stiffener_sections",
                                            !.s0 = ext.s0, !.s1 = ext.s1,
                                            !.s_stiff = ss, !.raised = r.R.err]
                    /\ pc' = IF r.R.err THEN "error" ELSE "done"
    /\ UNCHANGED <<opt, inputs, supplied, prev, evals>>

BulkNext == BulkCompute \/ StiffStart \/ NudgeStep \/ NudgeExit

SpecBulk == BulkInit /\ [][BulkNext]_vars

-----------------------------------------------------------------------------
(* MemberComplex.add_main_sections for a circular and for a rectangular    *)
(* member of constant cross-section, with and without ghost regions.       *)

MainInit ==
    /\ sections = EmptyDict
    /\ heap = <<>>
    /\ call = NoCall
    /\ pc = "add_main_sections"
    /\ opt \in {o \in Options : o.n_bulk = 0 /\ o.n_ball = 0 /\ o.n_axial = 0}
    /\ \E i \in InputChoices(opt), shape \in {"circular", "rectangular"},
          g1 \in {0, 1, Mid + 1}, g2 \in {One - 1, One}, d \in {8, 10, 12} :
          inputs = [i EXCEPT !.s_ghost1 = g1, !.s_ghost2 = g2, !.outer_diameter = d]
                       @@ [shape |-> shape, side_length_a |-> d, side_length_b |-> d]
    /\ supplied = inputs
    /\ outputs = DefaultOutputs(opt)
    /\ prev = NotStarted(opt)
    /\ evals = 1

\* compute(): self.sections = SortedDict(), then add_main_sections
MainCompute ==
    /\ pc = "add_main_sections"
    /\ call.op = "init"
    /\ LET r == add_main_sections(Reg(EmptyDict, <<>>), inputs, outputs)
       IN  Step(r.R, r.out, "add_main_sections", "add_bulkhead_sections")
    /\ UNCHANGED inputs

SpecMain == MainInit /\ [][MainCompute]_vars

-----------------------------------------------------------------------------
(* MemberComplex.nodal_discretization on a registry with keys closer than  *)
(* 1e-6: positions are held in units of 1e-7 of the member length, the     *)
(* main partition has two sections and one bulkhead has been inserted.     *)

\* the member length in key units of 1e-7
Fine == 10 * Million

NodalInit ==
    /\ LET hp == <<ArgSection(1), ArgSection(2)>>
           R == add_section(add_section(Reg(EmptyDict, hp), 0, Fine \div 2, 1),
                            Fine \div 2, Fine, 2)
       IN  sections = R.sec /\ heap = R.heap
    /\ call = NoCall
    /\ pc = "add_bulkhead_sections"
    /\ \E joints \in {<<>>, <<Fine \div 4>>, <<Fine \div 2 + 3>>} :
          /\ opt = [n_bulk |-> 1, n_ball |-> 0, n_axial |-> Len(joints), n_height |-> 3]
          /\ inputs = [s_full |-> <<0, Fine \div 2, Fine>>, grid_axial_joints |-> joints]
    /\ supplied = inputs
    /\ outputs = DefaultOutputs(opt)
    /\ prev = NotStarted(opt)
    /\ evals = 1

\* add_bulkhead_sections' loop body for one bulkhead from s0 to s0 + th,
\* near the middle of the member and 1e-7 to 2e-6 of its length thick
NodalBulkhead ==
    /\ pc = "add_bulkhead_sections"
    /\ \E d \in {-6, -5, -4, 0, 4, 5, 6, 10}, th \in {1, 4, 5, 6, 10, 20} :
          LET s0 == Fine \div 2 + d IN
          LET a == Alloc(heap, ArgSection(20))
          IN  Step(insert_section(Reg(sections, a.heap), s0, s0 + th, a.ref), outputs,
                   "add_bulkhead_sections", "nodal_discretization")
    /\ UNCHANGED inputs

SpecNodal == NodalInit /\ [][NodalBulkhead \/ NodalDiscretization]_vars

-----------------------------------------------------------------------------
(* run_wisdem: one call, from the creation of the OpenMDAO problem to the  *)
(* return.  outputs is the sequence of the calls made so far, each with    *)
(* the line that makes it; opt is opt_options and inputs the arguments.    *)
(* "check_totals" in opt_options["driver"] is a sequence of length one     *)
(* when the key is present.                                                *)

\* the most step sizes of a step-size study
MaxStepSizes == 2

RunInit ==
    /\ sections = EmptyDict
    /\ heap = <<>>
    /\ call = NoCall
    /\ pc = "create_problem"
    /\ opt \in [opt_flag : BOOLEAN,
                check_totals : {<<>>, <<FALSE>>, <<TRUE>>},
                check_partials : {<<>>, <<FALSE>>, <<TRUE>>},
                step_size_study : BOOLEAN,
                step_sizes : 0 .. MaxStepSizes]
    /\ inputs \in [run_only : BOOLEAN, MPI : BOOLEAN]
    /\ supplied = <<>>
    /\ outputs = <<>>
    /\ prev = <<>>
    /\ evals = 0

\* om.Problem(...), then the optimization is set up when opt_flag is set
\* and run_only is not
RunConfigure ==
    /\ pc = "create_problem"
    /\ outputs' = outputs
          \o <<<<"Problem", IF inputs.MPI /\ opt.opt_flag /\ ~inputs.run_only THEN 68 ELSE 74>>>>
          \o (IF opt.opt_flag /\ ~inputs.run_only
              THEN << <<"set_driver", 80>>, <<"set_objective", 81>>,
                      <<"set_design_variables", 82>>, <<"set_constraints", 83>>,
                      <<"set_recorders", 84>> >>
              ELSE <<>>)
    /\ pc' = "setup"
    /\ UNCHANGED <<sections, heap, call, opt, inputs, supplied, prev, evals>>

\* wt_opt.setup() and the initial values
RunSetup ==
    /\ pc = "setup"
    /\ outputs' = outputs \o << <<"setup", 91>>, <<"yaml2openmdao", 94>>,
                                <<"set_initial", 95>>, <<"set_restart", 108>> >>
    /\ pc' = "checks"
    /\ UNCHANGED <<sections, heap, call, opt, inputs, supplied, prev, evals>>

\* check_totals and check_partials
RunChecks ==
    /\ pc = "checks"
    /\ LET key(c) == Len(c) > 0 /\ ~inputs.run_only
           totals == IF key(opt.check_totals) /\ opt.check_totals[1]
                     THEN << <<"run_model", 112>>, <<"compute_totals", 113>> >>
                     ELSE <<>>
           partials == IF key(opt.check_partials) /\ opt.check_partials[1]
                       THEN << <<"run_model", 117>>, <<"check_partials", 118>> >>
                       ELSE <<>>
       IN  outputs' = outputs \o totals \o partials
    /\ pc' = "run"
    /\ UNCHANGED <<sections, heap, call, opt, inputs, supplied, prev, evals>>

\* the final branch without the tests of run_only
RunFinalIgnoringRunOnly ==
    /\ pc = "run"
    /\ LET study == << <<"run_model", 123>> >>
                      \o [k \in 1 .. 2 * opt.step_sizes |->
                            IF k % 2 = 1 THEN <<"approx_totals", 128>>
                            ELSE <<"compute_totals", 140>>]
                      \o << <<"np.save", 143>> >>
           branch == IF opt.step_size_study THEN study
                     ELSE IF opt.opt_flag THEN << <<"run_driver", 147>> >>
                     ELSE << <<"run_model", 149>> >>
       IN  \E returns \in BOOLEAN :
              /\ outputs' = outputs \o (IF returns THEN branch ELSE <<Head(branch)>>)
              /\ pc' = IF returns THEN "save" ELSE "raised"
    /\ UNCHANGED <<sections, heap, call, opt, inputs, supplied, prev, evals>>

\* if / elif / else: the step-size study, run_driver or run_model.  The
\* first call of the branch may raise; nothing catches it and run_wisdem
\* ends there.
RunFinal ==
    /\ pc = "run"
    /\ LET study == << <<"run_model", 123>> >>
                      \o [k \in 1 .. 2 * opt.step_sizes |->
                            IF k % 2 = 1 THEN <<"approx_totals", 128>>
                            ELSE <<"compute_totals", 140>>]
                      \o << <<"np.save", 143>> >>
           branch == IF opt.step_size_study /\ ~inputs.run_only THEN study
                     ELSE IF opt.opt_flag /\ ~inputs.run_only THEN << <<"run_driver", 147>> >>
                     ELSE << <<"run_model", 149>> >>
       IN  \E returns \in BOOLEAN :
              /\ outputs' = outputs \o (IF returns THEN branch ELSE <<Head(branch)>>)
              /\ pc' = IF returns THEN "save" ELSE "raised"
    /\ UNCHANGED <<sections, heap, call, opt, inputs, supplied, prev, evals>>

\* the output files
RunSave ==
    /\ pc = "save"
    /\ outputs' = outputs \o << <<"write_ontology", 153>>, <<"write_options", 154>>,
                                <<"save_data", 157>> >>
    /\ pc' = "returned"
    /\ UNCHANGED <<sections, heap, call, opt, inputs, supplied, prev, evals>>

SpecRun == RunInit /\ [][RunConfigure \/ RunSetup \/ RunChecks \/ RunFinal \/ RunSave]_vars

-----------------------------------------------------------------------------
(* Claims about the evaluation pipeline (specification Spec)               *)

\* an overlay method has returned and compute has not raised
AfterMainSections ==
    pc \in {"add_bulkhead_sections", "add_ring_stiffener_sections",
            "add_circular_ballast_sections", "compute_mass_properties",
            "nodal_discretization", "done"}

NoneKeys == {k \in DOMAIN sections : sections[k] = NoneRef}

\* C3: after add_main_sections and after every later overlay step, exactly one
\* registry key holds no section and it is the greatest key; every other key
\* holds a section (bulkhead positions in [0,1], thickness >= 0).
C3_OneTerminalSentinel ==
    AfterMainSections => NoneKeys = {LastKey(sections)}

\* C6: no two registry keys share one section object, so a ballast segment
\* raises the density of each interval exactly once.
C6_NoSharedSection ==
    /\ \A k1 \in DOMAIN sections, k2 \in DOMAIN sections :
          (k1 # k2 /\ sections[k1] # NoneRef) => sections[k1] # sections[k2]
    /\ (call.op = "add_circular_ballast_sections" /\ ~call.raised) =>
          \A k \in DOMAIN sections :
              sections[k] # NoneRef =>
                  LET o == heap[sections[k]]
                      g == inputs.ballast_grid     \* already shifted by s_ghost1
                      inc(j) == LET b0 == Min(g[j][1], inputs.s_ghost2)
                                    b1 == Min(g[j][2], inputs.s_ghost2)
                                IN  IF k >= b0 /\ k < b1
                                    THEN ((inputs.ballast_density[j] * inputs.ballast_volume[j])
                                            \div o.A) \div (b1 - b0)
                                    ELSE 0
                  IN  o.rho = SecAt(call.pre.sec, call.pre.heap, k).rho
                                + SumSeq([j \in 1 .. Len(g) |-> inc(j)])

\* the density of some interval is raised twice by one ballast segment
C6_RaisedTwice ==
    /\ call.op = "add_circular_ballast_sections"
    /\ ~call.raised
    /\ Len(inputs.ballast_grid) = 1
    /\ \E k \in DOMAIN sections :
          /\ sections[k] # NoneRef
          /\ LET o == heap[sections[k]]
                 H == Min(inputs.ballast_grid[1][2], inputs.s_ghost2)
                        - Min(inputs.ballast_grid[1][1], inputs.s_ghost2)
             IN  /\ H > 0
                 /\ o.rho = SecAt(call.pre.sec, call.pre.heap, k).rho
                             + 2 * (((inputs.ballast_density[1] * inputs.ballast_volume[1]) \div o.A) \div H)

\* what make_ghost leaves in the reported fields
GhostReport(r) ==
    /\ r.t = GhostVal /\ r.A = GhostVal /\ r.Asx = GhostVal /\ r.Asy = GhostVal
    /\ r.Ixx = GhostVal /\ r.Iyy = GhostVal /\ r.J0 = GhostVal
    /\ r.rho = GhostVal /\ r.D = GhostVal

\* the indices of the nodal outputs that report a section
Reported == {j \in 1 .. MEMMAX : outputs.section[j] # NullSection}

\* C7: in the final registry used for the nodal outputs, every interval whose
\* start key is below s_ghost1 or at/above s_ghost2 (the terminal key aside)
\* carries ghost properties, whatever was overlaid.
C7_GhostRegionsStayGhost ==
    pc = "done" =>
        \A j \in Reported :
            (outputs.s_all[j] < inputs.s_ghost1 \/ outputs.s_all[j] >= inputs.s_ghost2)
                => GhostReport(outputs.section[j])

\* C8: every section the pipeline ghosts is ghosted exactly once: its t, A,
\* Asx, Asy, Ixx, Iyy, J0, rho and D are 1e-2 and its E, G, sigy are exactly
\* 100 times the material values of the shell interval under it; the nodal
\* outputs report these values.
C8_GhostedOnce ==
    /\ \A k \in DOMAIN sections :
          (sections[k] # NoneRef /\ heap[sections[k]].nghost >= 1) =>
              LET o == heap[sections[k]]
              IN  /\ o.nghost = 1
                  /\ GhostReport(Report(o))
                  /\ o.E = GhostStiff * sectionalInterp(k, inputs.s_full, inputs.E_full)
                  /\ o.G = GhostStiff * sectionalInterp(k, inputs.s_full, inputs.G_full)
                  /\ o.sigy = GhostStiff * sectionalInterp(k, inputs.s_full, inputs.sigma_y_full)
    /\ pc = "done" =>
          \A j \in Reported :
              outputs.section[j] = Report(heap[sections[outputs.s_all[j]]])

\* an evaluation with both ghost regions, a bulkhead, a stiffener and ballast
\* that reports ghost sections on both sides
C8_Witness ==
    /\ pc = "done"
    /\ inputs.s_ghost1 > 0
    /\ inputs.s_ghost2 < One
    /\ Len(inputs.bulkhead_grid) > 0
    /\ Len(inputs.ballast_grid) > 0
    /\ inputs.ring_stiffener_spacing # 0
    /\ \E j \in Reported :
          /\ outputs.s_all[j] < inputs.s_ghost1
          /\ heap[sections[outputs.s_all[j]]].nghost = 1
    /\ \E j \in Reported :
          /\ outputs.s_all[j] >= inputs.s_ghost2
          /\ heap[sections[outputs.s_all[j]]].nghost = 1

\* C9: an evaluation started again with the same supplied inputs, after one
\* that completed, yields identical outputs.
C9_SameInputsSameOutputs ==
    (pc = "done" /\ prev.same /\ prev.after = "done") => outputs = prev.outputs

\* the repeated evaluation differs from the first one in the ballast it placed
C9_BallastMoved ==
    /\ pc = "done" /\ prev.same /\ prev.after = "done"
    /\ inputs.s_ghost1 > 0
    /\ inputs.ballast_grid # supplied.ballast_grid
    /\ outputs.section # prev.outputs.section

\* C10: the outputs of an evaluation depend on its own inputs only: with
\* ring_stiffener_spacing = 0, stiffener_mass and stiffener_cost are 0 and
\* total_mass holds no stiffener mass.
C10_NoStaleStiffeners ==
    (pc = "done" /\ inputs.ring_stiffener_spacing = 0) =>
        /\ outputs.stiffener_mass = 0
        /\ outputs.stiffener_cost = 0
        /\ outputs.total_mass = outputs.shell_mass + outputs.bulkhead_mass + outputs.ballast_mass

\* C10 (hydrostatics): a member re-evaluated entirely above the waterline
\* reports no displacement and no buoyancy force.
C10_NoStaleBuoyancy ==
    (pc = "hydro" /\ inputs.z0 > 0) =>
        (outputs.displacement = 0 /\ outputs.buoyancy_force = 0)

\* a member above the waterline evaluated first reports 0, as set up
C10_DryFirst ==
    (pc = "hydro" /\ evals = 1 /\ inputs.z0 > 0) =>
        (outputs.displacement = 0 /\ outputs.buoyancy_force = 0)

-----------------------------------------------------------------------------
(* Claims about the nodal outputs (specification Spec)                     *)

\* C11: after a completed evaluation with n distinct nodes (n <= MEMMAX),
\* s_all[0..n-1] are the registry keys in strictly increasing order and every
\* later entry is the sentinel; the section outputs hold section values at
\* indices 0..n-2 and the sentinel at every index from n-1 on.
C11_SentinelPadding ==
    pc = "done" =>
        LET keys == SortedKeys(sections)
            n == Len(keys)
        IN  /\ n <= MEMMAX
            /\ \A k \in 1 .. MEMMAX :
                  outputs.s_all[k] = IF k <= n THEN keys[k] ELSE NULL
            /\ \A k \in 1 .. n - 1 : outputs.s_all[k] < outputs.s_all[k + 1]
            /\ \A k \in 1 .. MEMMAX :
                  IF k <= n - 1
                  THEN /\ outputs.section[k] = Report(heap[sections[keys[k]]])
                       /\ \A f \in DOMAIN outputs.section[k] : outputs.section[k][f] # NULL
                  ELSE outputs.section[k] = NullSection

\* a completed evaluation that fills the arrays to capacity, after one that
\* did not
C11_Witness ==
    /\ pc = "done"
    /\ Cardinality(DOMAIN sections) = MEMMAX
    /\ outputs.s_all[MEMMAX] = One
    /\ outputs.section[MEMMAX] = NullSection
    /\ outputs.section[MEMMAX - 1] # NullSection

\* a completed evaluation that leaves padding in s_all
C11_WitnessPadded ==
    /\ pc = "done"
    /\ Cardinality(DOMAIN sections) < MEMMAX - 1
    /\ outputs.s_all[MEMMAX - 1] = NULL

\* the load outputs hold values exactly at the indices where s_all does
LoadsFollowNodes ==
    \A k \in 1 .. MEMMAX :
        /\ (inputs.s_all[k] = NULL) = (outputs.Px[k] = NULL)
        /\ (inputs.s_all[k] = NULL) = (outputs.Py[k] = NULL)
        /\ (inputs.s_all[k] = NULL) = (outputs.Pz[k] = NULL)
        /\ (inputs.s_all[k] = NULL) = (outputs.qdyn[k] = NULL)

\* C12: in memmax mode Global2MemberLoads finds the node count of every
\* s_all MemberComplex can emit with n <= MEMMAX nodes, n = MEMMAX included:
\* the evaluation completes and Px, Py, Pz, qdyn hold values exactly at the
\* indices where s_all does, the sentinel elsewhere.
C12_LoadsFollowNodes ==
    pc \in {"loads_done", "loads_error"} => (pc = "loads_done" /\ LoadsFollowNodes)

\* C12 below capacity: with at least one sentinel in s_all the evaluation
\* completes and the loads follow the nodes
C12_BelowCapacity ==
    (pc \in {"loads_done", "loads_error"} /\ inputs.s_all[MEMMAX] = NULL)
        => (pc = "loads_done" /\ LoadsFollowNodes)

\* an evaluation on an s_all with MEMMAX nodes has raised
C12_FullGridRaises ==
    /\ pc = "loads_error"
    /\ \A k \in 1 .. MEMMAX : inputs.s_all[k] # NULL
    /\ outputs = LoadsDefaultOutputs

-----------------------------------------------------------------------------
(* Claims about the grid refinement (specification SpecDisc)               *)

\* C13: for a strictly increasing control grid of n points and n_refine = r,
\* s_full is strictly increasing, contains every control point, divides each
\* control interval into r equal sub-intervals and has 1 + r * (n - 1)
\* points, the size get_nfull declares.
C13_RefinedGrid ==
    /\ pc # "disc_error"
    /\ pc = "disc_done" =>
          LET f == outputs.s_full
              r == inputs.n_refine
              n == inputs.n_height
          IN  /\ Len(f) = 1 + r * (n - 1)
              /\ Len(f) = get_nfull(n, r)
              /\ \A k \in 1 .. Len(f) - 1 : f[k] < f[k + 1]
              /\ \A k \in 1 .. n : f[(k - 1) * r + 1] = inputs.s[k]
              /\ \A k \in 1 .. n - 1 : \A j \in 1 .. r :
                    r * (f[(k - 1) * r + j + 1] - f[(k - 1) * r + j])
                        = inputs.s[k + 1] - inputs.s[k]

\* a control grid with unequal intervals, refined MaxRefine times
C13_Witness ==
    /\ pc = "disc_done"
    /\ inputs.n_height = MaxPts
    /\ inputs.n_refine = MaxRefine
    /\ \E k \in 1 .. inputs.n_height - 2 :
          inputs.s[k + 1] - inputs.s[k] # inputs.s[k + 2] - inputs.s[k + 1]
    /\ Len(outputs.s_full) = 1 + MaxRefine * (MaxPts - 1)

-----------------------------------------------------------------------------
(* Claims about the geometry checks (specification SpecYaml)               *)

\* the section values DiscretizationYAML.compute checks, from its inputs
YamlSectionHeight ==
    [j \in 1 .. Len(inputs.s_in) - 1 |->
        Abs(inputs.joint2 - inputs.joint1)
            * (ConstSections(inputs).s[j + 1] - ConstSections(inputs).s[j])]

YamlWallThickness ==
    [j \in 1 .. Len(inputs.s_in) - 1 |->
        SumSeq([k \in 1 .. Len(inputs.layer_thickness) |->
                   (inputs.layer_thickness[k][j] + inputs.layer_thickness[k][j + 1]) \div 2])]

YamlInvalidGeometry ==
    \/ AnyNonPositive(YamlSectionHeight)
    \/ AnyNonPositive(YamlWallThickness)
    \/ inputs.shape = "circular" /\ AnyNonPositive(inputs.outer_diameter_in)
    \/ inputs.shape = "rectangular" /\ AnyNonPositive(inputs.side_length_a_in)
    \/ inputs.shape = "rectangular" /\ AnyNonPositive(inputs.side_length_b_in)

\* C14: DiscretizationYAML.compute raises whenever a section height, a summed
\* wall thickness, an outer diameter (circular) or a side length (rectangular)
\* is <= 0, two coincident grid positions included, and when it raises no
\* thickness- or density-weighted division has been executed.
C14_InvalidGeometryRaises ==
    pc \in {"yaml_done", "yaml_error"} =>
        /\ YamlInvalidGeometry => pc = "yaml_error"
        /\ pc = "yaml_error" => call.divisors = <<>>
        /\ pc = "yaml_done" => \A k \in DOMAIN call.divisors : call.divisors[k] > 0

\* two coincident grid positions, every other value good: the evaluation has
\* raised before dividing
C14_Witness ==
    /\ pc = "yaml_error"
    /\ \E j \in 1 .. Len(inputs.s_in) - 1 : inputs.s_in[j] = inputs.s_in[j + 1]
    /\ inputs.joint2 # inputs.joint1
    /\ ~AnyNonPositive(YamlWallThickness)
    /\ inputs.shape = "circular"
    /\ ~AnyNonPositive(inputs.outer_diameter_in)
    /\ call.divisors = <<>>

\* an evaluation with a zero summed wall thickness in one section only has
\* raised
C14_WitnessThickness ==
    /\ pc = "yaml_error"
    /\ ~AnyNonPositive(YamlSectionHeight)
    /\ YamlWallThickness[1] = 0
    /\ YamlWallThickness[2] > 0

-----------------------------------------------------------------------------
(* Claims about failed evaluations (specifications SpecYaml and Spec)      *)

\* C15: when an evaluation fails with an error, none of the component's
\* outputs has been modified: every output still holds the value it had
\* before the evaluation started.
C15_FailedEvaluationKeepsOutputs ==
    pc = "yaml_error" => outputs = prev.outputs

\* a failed DiscretizationYAML evaluation has left the grid and the section
\* heights it rejects in the outputs
C15_PartialGeometryWritten ==
    /\ pc = "yaml_error"
    /\ outputs.s = inputs.s_in
    /\ outputs.s # prev.outputs.s
    /\ AnyNonPositive(outputs.section_height)
    /\ outputs.rho = prev.outputs.rho

\* C15 (MemberComplex): an evaluation that raises leaves the outputs of the
\* evaluation before it
C15_ComplexKeepsOutputs ==
    pc = "error" => outputs = prev.outputs

-----------------------------------------------------------------------------
(* Claims about the ballast (specification Spec)                           *)

\* add_circular_ballast_sections has just returned without raising
BallastPlaced == call.op = "add_circular_ballast_sections" /\ ~call.raised

\* the segments in use: ballast_grid (already shifted by s_ghost1) clamped to
\* s_ghost2
BallastS0(k) == Min(inputs.ballast_grid[k][1], inputs.s_ghost2)
BallastS1(k) == Min(inputs.ballast_grid[k][2], inputs.s_ghost2)

\* the cavity volume of segment k, over pi: the inner radius squared times
\* the extent
BallastCavity(k) ==
    SumSeq([j \in 1 .. BallastS1(k) - BallastS0(k) |->
               LET r == inputs.outer_diameter \div 2
                          - sectionalInterp(BallastS0(k) + j - 1, inputs.s_full, inputs.t_full)
               IN  r * r])

\* C16: for a permanent ballast segment whose requested volume exceeds the
\* available cavity volume, the ballast method does not raise on that
\* account, constr_ballast_capacity of the segment is greater than 1 and
\* ballast_height is the full extent s1 - s0 of the segment, never more.
C16_OverfilledSegment ==
    /\ (call.op = "add_circular_ballast_sections" /\ call.raised) =>
          \E s \in DOMAIN call.pre.sec : call.pre.sec[s] = NoneRef /\ s < LastKey(call.pre.sec)
    /\ BallastPlaced =>
          \A k \in 1 .. Len(inputs.ballast_volume) :
              /\ outputs.ballast_height[k] <= BallastS1(k) - BallastS0(k)
              /\ (inputs.ballast_volume[k] > 0 /\ inputs.ballast_volume[k] > BallastCavity(k)) =>
                    /\ outputs.constr_ballast_capacity[k] > RatioUnit
                    /\ outputs.ballast_height[k] = BallastS1(k) - BallastS0(k)

\* a segment of positive capacity filled beyond it
C16_Witness ==
    /\ BallastPlaced
    /\ Len(inputs.ballast_volume) = 1
    /\ BallastCavity(1) > 0
    /\ inputs.ballast_volume[1] > BallastCavity(1)
    /\ outputs.constr_ballast_capacity[1] > RatioUnit
    /\ outputs.constr_ballast_capacity[1] # NonFinite
    /\ outputs.ballast_height[1] = BallastS1(1) - BallastS0(1)

\* the key after k in the registry
NextKey(k) == CHOOSE j \in DOMAIN sections : j > k /\ \A x \in DOMAIN sections : x > k => j <= x

\* the density of the interval that starts at key k, before and after the
\* ballast method
RhoBefore(k) == SecAt(call.pre.sec, call.pre.heap, k).rho
RhoAfter(k) == heap[sections[k]].rho

\* C17: for a ballast segment [s0, s1], the density of a registry interval is
\* raised exactly when the interval, from its start key to the next key, lies
\* fully inside [s0, s1]; it is raised once, by the ballast mass divided by
\* the interval's area and the height, added to the density it had.
C17_RaisedWhenInside ==
    (BallastPlaced /\ Len(inputs.ballast_volume) = 1) =>
        \A k \in DOMAIN sections :
            sections[k] # NoneRef =>
                LET inside == k >= BallastS0(1) /\ NextKey(k) <= BallastS1(1)
                    m == inputs.ballast_density[1] * inputs.ballast_volume[1]
                IN  RhoAfter(k) =
                        IF inside
                        THEN RhoBefore(k)
                               + (m \div heap[sections[k]].A) \div (BallastS1(1) - BallastS0(1))
                        ELSE RhoBefore(k)

\* an interval that reaches beyond s1 has had its density raised, in a
\* registry where no two keys share a section
C17_StraddlingRaised ==
    /\ BallastPlaced
    /\ Len(inputs.ballast_volume) = 1
    /\ \A k1 \in DOMAIN sections, k2 \in DOMAIN sections :
          (k1 # k2 /\ sections[k1] # NoneRef) => sections[k1] # sections[k2]
    /\ \E k \in DOMAIN sections :
          /\ sections[k] # NoneRef
          /\ k >= BallastS0(1) /\ k < BallastS1(1)
          /\ NextKey(k) > BallastS1(1)
          /\ RhoAfter(k) > RhoBefore(k)

\* C18: no evaluation silently divides by zero: when a ballast segment has
\* zero capacity or zero height, the division is guarded or the evaluation
\* raises, and no output becomes NaN or infinite.
C18_NoSilentDivisionByZero ==
    (BallastPlaced \/ pc = "done") =>
        /\ outputs.ballast_z_cg # NonFinite
        /\ \A k \in DOMAIN outputs.constr_ballast_capacity :
              outputs.constr_ballast_capacity[k] # NonFinite

\* an evaluation with a segment clamped to s0 = s1 = s_ghost2 has completed
\* and reports a non-finite capacity constraint and centre of gravity
C18_SilentInfinity ==
    /\ pc = "done"
    /\ Len(inputs.ballast_volume) = 1
    /\ BallastS0(1) = BallastS1(1)
    /\ BallastS0(1) = inputs.s_ghost2
    /\ outputs.constr_ballast_capacity[1] = NonFinite
    /\ outputs.ballast_z_cg = NonFinite

-----------------------------------------------------------------------------
(* Claims about the mass roll-up (specification SpecMass)                  *)

\* total_mass and structural_mass agree with the reported component masses
MassesAddUp ==
    /\ outputs.total_mass = outputs.shell_mass + outputs.bulkhead_mass
                              + outputs.stiffener_mass + outputs.ballast_mass
    /\ outputs.structural_mass = outputs.total_mass - outputs.ballast_mass

\* the total mass before the override
UnscaledTotal ==
    prev.outputs.shell_mass + prev.outputs.bulkhead_mass
        + prev.outputs.stiffener_mass + prev.outputs.ballast_mass

\* C19: after the roll-up total_mass is the sum of the reported shell,
\* bulkhead, stiffener and ballast masses and structural_mass is total_mass
\* less ballast_mass; with a non-zero total_mass_user, total_mass is the
\* override and each of the four component masses and four base inertias is
\* scaled by total_mass_user / (unscaled total mass).
C19_RollUp ==
    pc = "mass_done" =>
        /\ MassesAddUp
        /\ inputs.total_mass_user # 0 =>
              /\ outputs.total_mass = inputs.total_mass_user
              /\ \A f \in ScaledOnce \cup {"ballast_mass"} :
                    outputs[f] * UnscaledTotal = prev.outputs[f] * inputs.total_mass_user

\* C19 without the override: the masses add up and nothing is scaled
C19_NoOverride ==
    (pc = "mass_done" /\ inputs.total_mass_user = 0) =>
        /\ MassesAddUp
        /\ \A f \in ScaledOnce \cup {"ballast_mass"} : outputs[f] = prev.outputs[f]

\* C19 without ballast: the override scales every component by one factor
C19_NoBallast ==
    (pc = "mass_done" /\ prev.outputs.ballast_mass = 0) => C19_RollUp

\* with the override and ballast, ballast_mass is scaled by the square of the
\* factor and the component masses no longer add up to total_mass
C19_BallastScaledTwice ==
    /\ pc = "mass_done"
    /\ inputs.total_mass_user # 0
    /\ prev.outputs.ballast_mass > 0
    /\ outputs.total_mass = inputs.total_mass_user
    /\ outputs.ballast_mass * UnscaledTotal * UnscaledTotal
          = prev.outputs.ballast_mass * inputs.total_mass_user * inputs.total_mass_user
    /\ outputs.structural_mass = outputs.total_mass - outputs.ballast_mass
    /\ outputs.total_mass # outputs.shell_mass + outputs.bulkhead_mass
                              + outputs.stiffener_mass + outputs.ballast_mass

-----------------------------------------------------------------------------
(* Claims about the shell mass and cost (specification SpecShell)          *)

\* the outputs of ShellMassCost for the same control points with n_refine = 1
Unrefined ==
    ShellMassCostCompute(
        ShellInputs([supplied EXCEPT !.n_refine = 1],
                    inputs.labor_cost_rate, inputs.painting_cost_rate),
        ShellDefaultOutputs)

\* the control points describe a cylinder of constant diameter and thickness
ConstantCylinder ==
    /\ \A k \in DOMAIN supplied.outer_diameter :
          supplied.outer_diameter[k] = supplied.outer_diameter[1]
    /\ \A k \in DOMAIN supplied.wall_thickness :
          supplied.wall_thickness[k] = supplied.wall_thickness[1]

\* mass, centre of gravity and base inertia do not depend on n_refine; the
\* mass of a constant cylinder is the sum over the control intervals of
\* rho (Ro^2 - Ri^2) H
MassInvariant ==
    /\ outputs.shell_mass = Unrefined.shell_mass
    /\ outputs.shell_z_cg = Unrefined.shell_z_cg
    /\ outputs.shell_I_base = Unrefined.shell_I_base
    /\ ConstantCylinder =>
          LET Ro == supplied.outer_diameter[1] \div 2
              Ri == Ro - supplied.wall_thickness[1]
          IN  outputs.shell_mass =
                  SumSeq([k \in 1 .. supplied.n_height - 1 |->
                             supplied.rho[k] * (Ro * Ro - Ri * Ri)
                               * supplied.height * (supplied.s[k + 1] - supplied.s[k])])

\* C20: for fixed control points, shell mass, centre of gravity, base
\* inertia and cost on the grid refined with n_refine = k equal those with
\* n_refine = 1, for every k >= 1, and the mass of a constant cylinder is
\* rho pi (Ro^2 - Ri^2) H at any refinement.
C20_RefinementInvariant ==
    pc = "shell_done" =>
        /\ MassInvariant
        /\ outputs.shell_cost = Unrefined.shell_cost

\* C20 for mass, centre of gravity and inertia alone
C20_MassInvariant ==
    pc = "shell_done" => MassInvariant

\* C20 without labour cost: the cost does not depend on n_refine either
C20_NoLabour ==
    (pc = "shell_done" /\ inputs.labor_cost_rate = 0) =>
        outputs.shell_cost = Unrefined.shell_cost

\* with a labour cost rate the refined constant cylinder has the mass of the
\* unrefined one and a higher cost
C20_RefinedCostsMore ==
    /\ pc = "shell_done"
    /\ supplied.n_refine > 1
    /\ inputs.labor_cost_rate > 0
    /\ ConstantCylinder
    /\ outputs.shell_mass = Unrefined.shell_mass
    /\ outputs.shell_cost > Unrefined.shell_cost
    /\ outputs.labor_hours > Unrefined.labor_hours

-----------------------------------------------------------------------------
(* Claims about the bulkhead and ring-stiffener overlays (specification    *)
(* SpecBulk)                                                               *)

\* add_bulkhead_sections has inserted every bulkhead of a non-empty list
BulkheadsInserted ==
    /\ call.op = "add_bulkhead_sections"
    /\ ~call.raised
    /\ Len(inputs.bulkhead_grid) > 0

\* C21: every bulkhead extent [s0, s1] handed to insert_section lies between
\* the ghost boundaries: s_ghost1 <= s0 <= s1 <= s_ghost2 for every bulkhead
\* of the list.
C21_BulkheadInsideGhosts ==
    BulkheadsInserted =>
        \A k \in 1 .. Len(call.s0) :
            /\ inputs.s_ghost1 <= call.s0[k]
            /\ call.s0[k] <= call.s1[k]
            /\ call.s1[k] <= inputs.s_ghost2

\* a bulkhead thinner than the range between the ghost boundaries is
\* inserted from below s_ghost1, over a key that held a ghost section
C21_BulkheadOverGhost ==
    /\ BulkheadsInserted
    /\ \E k \in 1 .. Len(call.s0) :
          /\ call.s0[k] < inputs.s_ghost1
          /\ inputs.bulkhead_thickness[k] < inputs.s_ghost2 - inputs.s_ghost1
          /\ \E g \in DOMAIN call.pre.sec :
                /\ g < inputs.s_ghost1
                /\ call.pre.heap[call.pre.sec[g]].nghost = 1
                /\ heap[sections[g]].nghost = 0

\* add_ring_stiffener_sections has inserted every stiffener
StiffenersInserted ==
    /\ call.op = "add_ring_stiffener_sections"
    /\ ~call.raised

\* C22: every ring-stiffener extent [s0, s1] handed to insert_section has
\* 0 <= s0 < s1 <= 1, stiffeners moved away from a bulkhead included, and
\* the overlay creates no registry key below 0 or above 1.
C22_StiffenerInsideMember ==
    StiffenersInserted =>
        /\ \A k \in 1 .. Len(call.s0) :
              0 <= call.s0[k] /\ call.s0[k] < call.s1[k] /\ call.s1[k] <= One
        /\ \A key \in (DOMAIN sections) \ (DOMAIN call.pre.sec) : 0 <= key /\ key <= One

\* a stiffener that is not the first was moved away from a bulkhead and
\* inserted from below 0: the overlay created a negative key
C22_NudgedBelowZero ==
    /\ StiffenersInserted
    /\ inputs.ring_stiffener_flange_width > 0
    /\ \E k \in 2 .. Len(call.s0) :
          /\ call.s0[k] < 0
          /\ call.s0[k] \in DOMAIN sections
          /\ call.s0[k] \notin DOMAIN call.pre.sec

\* a flange of no width: the extent is a single point
C22_EmptyExtent ==
    /\ StiffenersInserted
    /\ \E k \in 1 .. Len(call.s0) : call.s0[k] = call.s1[k]

\* stiffener k is clear of the bulkheads or at most the tolerance from 0
NudgedClear(s) ==
    \/ \A k \in 1 .. Len(inputs.bulkhead_grid) :
          Abs(inputs.bulkhead_grid[k] - s) > inputs.ring_stiffener_flange_width
    \/ s <= inputs.ring_stiffener_flange_width

\* C24: the loop that moves a stiffener away from the bulkheads terminates:
\* an iteration that leaves the loop condition true has moved the stiffener
\* down, towards the position where the loop stops; and every stiffener the
\* loop has left is clear of the bulkheads or at most the tolerance from 0.
C24_NudgeTerminates ==
    /\ (pc = "nudge" /\ call.iter > 0 /\ NudgeCondition) => call.s < call.s_stiff[call.n]
    /\ pc = "nudge" => \A k \in 1 .. call.n - 1 : NudgedClear(call.s_stiff[k])
    /\ call.op = "add_ring_stiffener_sections" =>
          \A k \in 1 .. Len(call.s_stiff) : NudgedClear(call.s_stiff[k])

\* the loop has run MaxNudge iterations on a bulkhead position with a
\* tolerance of 0 and the stiffener is where it started
C24_NudgeStuck ==
    /\ pc = "nudge"
    /\ call.iter = MaxNudge
    /\ NudgeCondition
    /\ call.s = call.s_stiff[call.n]

\* the second part of C24 alone: it holds
C24_ExitClear ==
    /\ pc = "nudge" => \A k \in 1 .. call.n - 1 : NudgedClear(call.s_stiff[k])
    /\ call.op = "add_ring_stiffener_sections" =>
          \A k \in 1 .. Len(call.s_stiff) : NudgedClear(call.s_stiff[k])

-----------------------------------------------------------------------------
(* Claims about the frame of the ballast overlay (specification Spec)      *)

\* the fields of a section other than rho
WithoutRho(o) == [o EXCEPT !.rho = 0]

\* C23: the ballast overlay leaves the set of registry keys unchanged, every
\* key keeps the section object it held, no section is created, and no
\* field of a section other than rho changes.
C23_BallastChangesRhoOnly ==
    call.op = "add_circular_ballast_sections" =>
        /\ DOMAIN sections = DOMAIN call.pre.sec
        /\ \A k \in DOMAIN sections : sections[k] = call.pre.sec[k]
        /\ Len(heap) = Len(call.pre.heap)
        /\ \A r \in 1 .. Len(heap) : WithoutRho(heap[r]) = WithoutRho(call.pre.heap[r])

\* the overlay has placed a ballast segment that ends between two keys and
\* raised the density of a section
C23_Witness ==
    /\ call.op = "add_circular_ballast_sections"
    /\ ~call.raised
    /\ Len(inputs.ballast_volume) > 0
    /\ \E r \in 1 .. Len(heap) : heap[r].rho > call.pre.heap[r].rho
    /\ \E k \in 1 .. Len(inputs.ballast_volume) :
          Min(inputs.ballast_grid[k][2], inputs.s_ghost2) \notin DOMAIN sections

-----------------------------------------------------------------------------
(* Claims about the grid of DiscretizationYAML (specification SpecYaml)    *)

StrictlyIncreasing(q) == \A k \in 1 .. Len(q) - 1 : q[k] < q[k + 1]

\* the input grid is strictly increasing from 0 to 1
YamlGridValid ==
    /\ StrictlyIncreasing(inputs.s_in)
    /\ inputs.s_in[1] = 0
    /\ inputs.s_in[Len(inputs.s_in)] = One

\* C25: for a strictly increasing input grid from 0 to 1 and any
\* constant-end-section request, the grid DiscretizationYAML builds and
\* stores in s has exactly n_height entries, is strictly increasing, starts
\* at 0 and ends at 1.
C25_GridWellFormed ==
    (pc \in {"yaml_done", "yaml_error"} /\ YamlGridValid) =>
        /\ Len(call.s_param) = Len(inputs.s_in)
        /\ StrictlyIncreasing(call.s_param)
        /\ call.s_param[1] = 0
        /\ call.s_param[Len(call.s_param)] = One
        /\ outputs.s = call.s_param

\* with s_const2 > 0 and every other input good, the grid built has
\* n_height + 1 entries, cannot be stored, and the evaluation has failed
C25_ExtraEntry ==
    /\ pc = "yaml_error"
    /\ YamlGridValid
    /\ inputs.s_const1 = 0
    /\ inputs.s_const2 > 0
    /\ Len(call.s_param) = Len(inputs.s_in) + 1
    /\ StrictlyIncreasing(call.s_param)
    /\ outputs.s = prev.outputs.s
    /\ inputs.joint2 # inputs.joint1
    /\ ~AnyNonPositive(YamlWallThickness)
    /\ inputs.shape = "circular"
    /\ ~AnyNonPositive(inputs.outer_diameter_in)

\* with s_const2 = 0 the grid is well formed, a constant section at the
\* start included
C25_WellFormedWithoutEndSection ==
    (pc \in {"yaml_done", "yaml_error"} /\ YamlGridValid /\ inputs.s_const2 = 0) =>
        /\ Len(call.s_param) = Len(inputs.s_in)
        /\ StrictlyIncreasing(call.s_param)
        /\ call.s_param[1] = 0
        /\ call.s_param[Len(call.s_param)] = One
        /\ outputs.s = call.s_param

-----------------------------------------------------------------------------
(* Claims about the pairing of bulkhead positions and thicknesses          *)
(* (specification SpecBulk)                                                *)

\* a requested bulkhead position, clamped into [s_ghost1, s_ghost2]
ClampedBulkhead(k) ==
    Min(Max(inputs.bulkhead_grid[k], inputs.s_ghost1), inputs.s_ghost2)

\* the distinct clamped positions, ascending
ClampedBulkheads ==
    SortedSeq({ClampedBulkhead(k) : k \in 1 .. Len(inputs.bulkhead_grid)})

\* the thicknesses supplied for the bulkheads requested at clamped position p
OwnThickness(p) ==
    {inputs.bulkhead_thickness[k] :
        k \in {j \in 1 .. Len(inputs.bulkhead_grid) : ClampedBulkhead(j) = p}}

\* the mass of one bulkhead of thickness t at position p (over pi)
OwnMass(p, t) ==
    LET R_id == inputs.outer_diameter \div 2 - sectionalInterp(p, inputs.s_full, inputs.t_full)
    IN  sectionalInterp(p, inputs.s_full, inputs.rho_full) * R_id * R_id * t

\* C26: each bulkhead is built from its own (position, thickness) pair: for
\* any order of bulkhead_grid and for positions that coincide after
\* clamping, one bulkhead is inserted per distinct clamped position, its
\* extent has the thickness supplied for that position, and bulkhead_mass
\* counts exactly these bulkheads.
C26_OwnThickness ==
    (call.op = "add_bulkhead_sections" /\ Len(inputs.bulkhead_grid) > 0) =>
        /\ ~call.raised
        /\ Len(call.s0) = Len(ClampedBulkheads)
        /\ \A j \in 1 .. Len(call.s0) :
              call.s1[j] - call.s0[j] \in OwnThickness(ClampedBulkheads[j])
        /\ \E t \in [1 .. Len(ClampedBulkheads) -> {0, 2, 4}] :
              /\ \A j \in DOMAIN t : t[j] \in OwnThickness(ClampedBulkheads[j])
              /\ outputs.bulkhead_mass =
                    SumSeq([j \in DOMAIN t |-> OwnMass(ClampedBulkheads[j], t[j])])

\* bulkhead_grid in descending order, distinct positions inside the range:
\* the bulkhead at the lower position got the thickness of the other
C26_SwappedThickness ==
    /\ call.op = "add_bulkhead_sections"
    /\ ~call.raised
    /\ Len(inputs.bulkhead_grid) = 2
    /\ inputs.bulkhead_grid[1] > inputs.bulkhead_grid[2]
    /\ Len(ClampedBulkheads) = 2
    /\ call.s1[1] - call.s0[1] = inputs.bulkhead_thickness[1]
    /\ call.s1[1] - call.s0[1] # inputs.bulkhead_thickness[2]
    /\ outputs.bulkhead_mass # OwnMass(ClampedBulkhead(1), inputs.bulkhead_thickness[1])
                               + OwnMass(ClampedBulkhead(2), inputs.bulkhead_thickness[2])

\* two requested positions coincide after clamping: the method has raised
\* after inserting one bulkhead, and bulkhead_mass was not written
C26_CoincidentRaises ==
    /\ call.op = "add_bulkhead_sections"
    /\ call.raised
    /\ Len(inputs.bulkhead_grid) = 2
    /\ inputs.bulkhead_grid[1] # inputs.bulkhead_grid[2]
    /\ Len(ClampedBulkheads) = 1
    /\ sections # call.pre.sec
    /\ outputs.bulkhead_mass = 0

-----------------------------------------------------------------------------
(* Claims about the mass of the ghost regions (specifications SpecMain and *)
(* Spec)                                                                   *)

\* the shell volume of one grid step of the member
StepVolume(i) ==
    IF "shape" \in DOMAIN i /\ i.shape = "rectangular"
    THEN i.side_length_a * i.side_length_b
           - (i.side_length_a - 2 * WallT) * (i.side_length_b - 2 * WallT)
    ELSE (i.outer_diameter \div 2) * (i.outer_diameter \div 2)
           - (i.outer_diameter \div 2 - WallT) * (i.outer_diameter \div 2 - WallT)

\* the mass of the shell between s_ghost1 and s_ghost2: every interval of
\* s_full, cut at the ghost boundaries, with its own density
NonGhostMass(i) ==
    SumSeq([k \in 1 .. Len(i.s_full) - 1 |->
               i.rho_full[k] * StepVolume(i)
                 * Max(0, Min(i.s_full[k + 1], i.s_ghost2) - Max(i.s_full[k], i.s_ghost1))])

\* C27: the intervals in a ghost region, below s_ghost1 or above s_ghost2,
\* contribute nothing to shell_mass: it is the mass of the shell between
\* the ghost boundaries, for a circular and for a rectangular member.
C27_GhostsMassless ==
    (call.op = "add_main_sections" /\ ~call.raised) =>
        outputs.shell_mass = NonGhostMass(inputs)

\* a rectangular member with a ghost region at each end: shell_mass is the
\* mass of the whole member, ghost intervals included
C27_RectangularGhostCounted ==
    /\ call.op = "add_main_sections"
    /\ ~call.raised
    /\ inputs.shape = "rectangular"
    /\ inputs.s_ghost1 > 0
    /\ inputs.s_ghost2 < One
    /\ outputs.shell_mass > NonGhostMass(inputs)
    /\ outputs.shell_mass =
          NonGhostMass([inputs EXCEPT !.s_ghost1 = 0, !.s_ghost2 = One])

\* the circular branch alone: it holds
C27_CircularGhostsMassless ==
    (call.op = "add_main_sections" /\ ~call.raised /\ inputs.shape = "circular") =>
        outputs.shell_mass = NonGhostMass(inputs)

-----------------------------------------------------------------------------
(* Claims about the sections reported for merged keys (specification       *)
(* SpecNodal)                                                              *)

\* the number of nodes reported in s_all
NodesReported == Cardinality({k \in 1 .. MEMMAX : outputs.s_all[k] # NULL})

\* the registry keys that were not retained as nodes
MergedKeys == {k \in DOMAIN sections : \A j \in 1 .. MEMMAX : outputs.s_all[j] # k}

\* the section of the registry interval that ends at position s
SectionReaching(s) ==
    LET below == {k \in DOMAIN sections : k < s}
    IN  heap[sections[CHOOSE k \in below : \A j \in below : j <= k]]

\* C28: for every index k below n - 1 the section reported at k is the one
\* the registry holds for the interval that reaches s_all[k+1], also when
\* keys that coincide after rounding have been merged into one node.
C28_ReportedSectionReachesNext ==
    (call.op = "nodal_discretization" /\ ~call.raised) =>
        \A k \in 1 .. NodesReported - 1 :
            outputs.section[k] = Report(SectionReaching(outputs.s_all[k + 1]))

\* a bulkhead thinner than 1e-6: its start is the retained key, its end is
\* merged away, and the bulkhead's section is reported up to the next node
C28_BulkheadReportedForShell ==
    /\ call.op = "nodal_discretization"
    /\ ~call.raised
    /\ MergedKeys # {}
    /\ \E k \in 1 .. NodesReported - 1 :
          /\ outputs.section[k] = Report(ArgSection(20))
          /\ SectionReaching(outputs.s_all[k + 1]) # ArgSection(20)
          /\ outputs.s_all[k + 1] - outputs.s_all[k] > Fine \div 4

\* without merged keys every reported section is the one of its interval
C28_DistinctKeysReported ==
    (call.op = "nodal_discretization" /\ ~call.raised /\ MergedKeys = {}) =>
        \A k \in 1 .. NodesReported - 1 :
            outputs.section[k] = Report(SectionReaching(outputs.s_all[k + 1]))

-----------------------------------------------------------------------------
(* Claims about the buoyancy of a member that ends at the waterline        *)
(* (specification SpecHydro)                                               *)

\* a node of the member lies strictly below z = 0 between the ghost boundaries
SubmergedNode ==
    \E k \in 1 .. Len(HydroGrid) :
        /\ inputs.z0 + HydroGrid[k] < 0
        /\ inputs.s_ghost1 <= HydroGrid[k]
        /\ HydroGrid[k] <= inputs.s_ghost2

\* C29: a member with a node strictly below z = 0 inside the non-ghost
\* range reports a positive displacement and buoyancy_force, also when its
\* highest node lies exactly at z = 0.
C29_SubmergedDisplaces ==
    SubmergedNode => outputs.displacement > 0 /\ outputs.buoyancy_force > 0

\* the first evaluation of a member whose highest node is at z = 0: every
\* other node is under water and no displacement is reported
C29_TopAtWaterlineDry ==
    /\ prev.after = "setup"
    /\ inputs.z0 + HydroGrid[Len(HydroGrid)] = 0
    /\ SubmergedNode
    /\ outputs.displacement = 0
    /\ outputs.buoyancy_force = 0

\* a member whose highest node is above or below z = 0 displaces water
C29_DisplacesUnlessTopAtWaterline ==
    (SubmergedNode /\ inputs.z0 + HydroGrid[Len(HydroGrid)] # 0) =>
        outputs.displacement > 0 /\ outputs.buoyancy_force > 0

-----------------------------------------------------------------------------
(* Claims about the control flow of run_wisdem (specification SpecRun)     *)

\* the positions in the call sequence of the calls made by the given lines
CallsAt(lines) == {k \in 1 .. Len(outputs) : outputs[k][2] \in lines}

\* the positions of the calls of the given functions
CallsOf(fns) == {k \in 1 .. Len(outputs) : outputs[k][1] \in fns}

\* the final branches that have started, by the line of their first call
BranchesRun == {l \in {123, 147, 149} : CallsAt({l}) # {}}

\* the branch the flags select
SelectedBranch ==
    IF opt.step_size_study /\ ~inputs.run_only THEN 123
    ELSE IF opt.opt_flag /\ ~inputs.run_only THEN 147
    ELSE 149

\* C30: in a call of run_wisdem exactly one final branch runs, the one the
\* flags select, and the output files are written only after it has
\* returned; with run_only = True nothing of the optimization is
\* configured, no check_totals or check_partials runs, and run_model is
\* called exactly once.
C30_OneFinalBranch ==
    /\ BranchesRun \subseteq {SelectedBranch}
    /\ pc \in {"save", "returned", "raised"} => BranchesRun = {SelectedBranch}
    /\ CallsAt({153, 154, 157}) # {} =>
          /\ pc = "returned"
          /\ \A w \in CallsAt({153, 154, 157}), b \in CallsAt(122 .. 149) : b < w
    /\ pc = "returned" => Cardinality(CallsAt({153, 154, 157})) = 3
    /\ inputs.run_only =>
          /\ CallsOf({"set_driver", "set_objective", "set_design_variables",
                      "set_constraints", "set_recorders", "compute_totals",
                      "check_partials", "run_driver", "approx_totals", "np.save"}) = {}
          /\ CallsOf({"run_model"}) \subseteq CallsAt({149})
          /\ Cardinality(CallsOf({"run_model"})) <= 1
          /\ pc \in {"save", "returned", "raised"} => Cardinality(CallsOf({"run_model"})) = 1

\* a returned call with run_only = True although every flag asks for more
C30_RunOnlyReturned ==
    /\ pc = "returned"
    /\ inputs.run_only
    /\ opt.opt_flag
    /\ opt.step_size_study
    /\ opt.check_totals = <<TRUE>>
    /\ opt.check_partials = <<TRUE>>
    /\ CallsOf({"run_model"}) = CallsAt({149})
    /\ Cardinality(CallsAt({149})) = 1

\* a returned step-size study with two step sizes
C30_StudyReturned ==
    /\ pc = "returned"
    /\ ~inputs.run_only
    /\ opt.opt_flag
    /\ BranchesRun = {123}
    /\ Cardinality(CallsAt({140})) = 2
    /\ CallsOf({"run_driver"}) = {}

====
